---- MODULE Spec2Model ----
(***************************************************************************)
(* Verification model of the legal-content pipeline (backend/app).         *)
(*                                                                         *)
(* Specifications of this module:                                          *)
(*   Spec      the batch world: batches, verdicts and the BatchWorker loop *)
(*             (an asyncio task) with the batch endpoints (coroutines of   *)
(*             the same event loop, so they run only while the worker      *)
(*             task is suspended);                                         *)
(*   SpecRuns  the batch world with the reprocess endpoint and the         *)
(*             background pipeline it starts (a thread that interleaves    *)
(*             with the worker at database commits);                       *)
(*   SpecItem  one verdict taken through BatchWorker._process_verdict at   *)
(*             the granularity of every progress write: analysis, the      *)
(*             generate/score/retry loop, article creation, publishing;    *)
(*   SpecFair  Spec with the worker loop and the calls it awaits scheduled *)
(*             fairly;                                                     *)
(*   SpecStages  one verdict and the stage endpoints (status PATCH,        *)
(*             anonymize, analyze, generate, their re- variants and        *)
(*             reprocess) with the service calls they start;               *)
(*   SpecReset VerdictService.reset_verdict applied to any row with any    *)
(*             target status;                                              *)
(*   SpecFaults  SpecFair with a poll cycle of the worker loop that raises *)
(*             and the loop's retry after its back-off sleep;              *)
(*   SpecChunks  Anonymizer.anonymize and _split_into_chunks on every      *)
(*             short text, for every small chunk size;                     *)
(*   SpecMerge the loop of Anonymizer._anonymize_chunked over the chunk    *)
(*             results and the storing of its result on the verdict;       *)
(*   SpecJson  utils.json_repair.safe_parse_json on every short text;      *)
(*   SpecPublish  WordPressManager.publish_article_with_retry with every   *)
(*             sequence of results of the call it retries;                 *)
(*   SpecUploads  the verdict table under single uploads, batch uploads    *)
(*             and deletions of a few contents;                            *)
(*   SpecRepairs  each stage of utils.json_repair.repair_json on every     *)
(*             short text and on the truncated nested objects.             *)
(*                                                                         *)
(* The verdict status set is the one the services use: it includes         *)
(* ARTICLE_CREATING (article_service.py:253, batch_worker.py:215), and a   *)
(* verdict carries processing_progress (analysis_service.py:96).           *)
(* The verdict table is kept per batch: verdicts[b] are the rows with      *)
(* batch_id = b in creation order, verdicts[0] the rows without a batch;   *)
(* the verdict <<b, i>> is row i of verdicts[b].                           *)
(***************************************************************************)
EXTENDS Integers, Sequences, FiniteSets, TLC

VARIABLES
    batches,      \* Seq of Batch rows; the batch id is the index
    verdicts,     \* [0..Len(batches) -> Seq of Verdict rows]
    is_running,   \* BatchWorker.is_running
    wpc,          \* where the worker loop is
    batchQ,       \* the `batches` list _process_pending_verdicts iterates
    pendingQ,     \* the `pending_verdicts` list of the batch at the head of batchQ
    sem,          \* value of BatchWorker._semaphore
    tasks,        \* _process_verdict coroutines that hold a slot
    bg,           \* background tasks started by endpoints (threads), oldest first
    nReprocess,   \* number of reprocess requests served so far
    item,         \* SpecItem: the verdict row processed
    run,          \* SpecItem: locals of _process_verdict / generate_article_from_verdict
    article,      \* SpecItem: the Article row of the verdict, or NoArticle
    site,         \* SpecItem: an active WordPressSite row exists
    verdict,      \* SpecStages: the Verdict row the stage endpoints work on
    jobs,         \* SpecStages: service calls in progress on it, oldest first
    text,         \* SpecChunks, SpecJson: the text given to anonymize / safe_parse_json
    chunk_size,   \* SpecChunks: Anonymizer.MAX_CHUNK_SIZE
    chunks,       \* SpecChunks: what the text was cut into
    merge,        \* SpecMerge: locals of Anonymizer._anonymize_chunked
    parsed,       \* SpecJson: where safe_parse_json(text) is and how it ended
    publish,      \* SpecPublish: locals of publish_article_with_retry and the Article row
    store         \* SpecUploads: the verdict table by file hash, and the last upload

schedVars ==
    <<batches, verdicts, is_running, wpc, batchQ, pendingQ, sem, tasks, bg, nReprocess>>
itemVars == <<item, run, article, site>>
stageVars == <<verdict, jobs>>
pureVars == <<text, chunk_size, chunks, merge, parsed, publish, store>>
vars ==
    <<batches, verdicts, is_running, wpc, batchQ, pendingQ, sem, tasks, bg, nReprocess,
      item, run, article, site, verdict, jobs, text, chunk_size, chunks, merge,
      parsed, publish, store>>

(***************************************************************************)
(* Bounds of the model                                                     *)
(***************************************************************************)
MaxBatches == 1
MaxItems == 4
MaxFilesPerCall == 4
MaxRunItems == 4
MaxBg == 1
MaxReprocess == 1
MaxJobs == 1
MaxTextLen == 7
MaxChunkSize == 4
MaxChunks == 3
MaxJsonLen == 4
RecursionLimit == 2
MaxPublishRetries == 3
MaxContents == 2
MaxUploads == 3
MaxNesting == 2

(***************************************************************************)
(* Program constants                                                       *)
(***************************************************************************)
max_concurrent == 3
MAX_FILES_PER_BATCH == 50

RECURSIVE SeqCount(_, _)
SeqCount(s, x) ==
    IF s = <<>> THEN 0
    ELSE (IF Head(s) = x THEN 1 ELSE 0) + SeqCount(Tail(s), x)

RECURSIVE Without(_, _)
Without(s, i) ==
    IF s = <<>> THEN <<>>
    ELSE IF i = 1 THEN Tail(s)
    ELSE <<Head(s)>> \o Without(Tail(s), i - 1)

RECURSIVE Ascending(_)
Ascending(S) ==
    IF S = {} THEN <<>>
    ELSE LET m == CHOOSE x \in S : \A y \in S : x <= y
         IN <<m>> \o Ascending(S \ {m})

RECURSIVE SumLen(_, _)
SumLen(f, S) ==
    IF S = {} THEN 0
    ELSE LET x == CHOOSE y \in S : TRUE
         IN Len(f[x]) + SumLen(f, S \ {x})

(***************************************************************************)
(* Rows                                                                    *)
(***************************************************************************)
BatchIds == 1..Len(batches)
VerdictIds == UNION {{<<b, i>> : i \in 1..Len(verdicts[b])} : b \in DOMAIN verdicts}
VerdictCount == SumLen(verdicts, DOMAIN verdicts)

Row(id) == verdicts[id[1]][id[2]]
SetStatus(vs, id, st) == [vs EXCEPT ![id[1]][id[2]].status = st]
SetFailed(vs, id, st) ==
    [vs EXCEPT ![id[1]][id[2]] = [@ EXCEPT !.status = st, !.review_notes = TRUE]]

(***************************************************************************)
(* BatchService                                                            *)
(*                                                                         *)
(* A file is named by what _process_single_file finds in it:               *)
(*   "invalid"    extension or size rejected;                              *)
(*   "duplicate"  a verdict with the same hash exists;                     *)
(*   "new"        text extraction succeeds, an EXTRACTED verdict is made;  *)
(*   "corrupt"    text extraction fails: process_file_upload leaves a      *)
(*                FAILED verdict without batch and raises.                 *)
(***************************************************************************)
ProcessSingleFile(vs, b, kind) ==
    CASE kind = "invalid"   -> [vs |-> vs, status |-> "invalid"]
      [] kind = "duplicate" -> [vs |-> vs, status |-> "duplicate"]
      [] kind = "new"       ->
            [vs |-> [vs EXCEPT ![b] = Append(@, [status |-> "extracted", article |-> FALSE,
                                                review_notes |-> FALSE])],
             status |-> "accepted"]
      [] OTHER              ->
            [vs |-> [vs EXCEPT ![0] = Append(@, [status |-> "failed", article |-> FALSE,
                                                review_notes |-> FALSE])],
             status |-> "error"]

\* the loop of add_files_to_batch: the verdict table and the result statuses
RECURSIVE ProcessFiles(_, _, _, _)
ProcessFiles(vs, b, files, results) ==
    IF files = <<>> THEN [vs |-> vs, results |-> results]
    ELSE LET r == ProcessSingleFile(vs, b, Head(files))
         IN ProcessFiles(r.vs, b, Tail(files), Append(results, r.status))

\* the same update with processed_files counting the successes only
CountSuccessesOnly(bs, b, success) ==
    LET counted == [bs[b] EXCEPT
            !.processed_files = IF success THEN @ + 1 ELSE @,
            !.successful_files = IF success THEN @ + 1 ELSE @,
            !.failed_files = IF success THEN @ ELSE @ + 1]
    IN [bs EXCEPT ![b] =
            IF counted.processed_files >= counted.total_files
            THEN [counted EXCEPT !.status = "completed"]
            ELSE counted]

\* the same update with the write of a failed completion lost
DropFailedUpdate(bs, b, success) ==
    LET counted == [bs[b] EXCEPT
            !.processed_files = IF success THEN @ + 1 ELSE @,
            !.successful_files = IF success THEN @ + 1 ELSE @]
    IN [bs EXCEPT ![b] =
            IF counted.processed_files >= counted.total_files
            THEN [counted EXCEPT !.status = "completed"]
            ELSE counted]

UpdateBatchProgress(bs, b, success) ==
    LET counted == [bs[b] EXCEPT
            !.processed_files = @ + 1,
            !.successful_files = IF success THEN @ + 1 ELSE @,
            !.failed_files = IF success THEN @ ELSE @ + 1]
    IN [bs EXCEPT ![b] =
            IF counted.processed_files >= counted.total_files
            THEN [counted EXCEPT !.status = "completed"]
            ELSE counted]

\* a "duplicate" needs a stored hash: n counts the verdicts that exist when
\* the file is looked at
RECURSIVE FilesFeasible(_, _)
FilesFeasible(n, files) ==
    IF files = <<>> THEN TRUE
    ELSE LET k == Head(files)
         IN /\ (k = "duplicate" => n > 0)
            /\ FilesFeasible(IF k \in {"new", "corrupt"} THEN n + 1 ELSE n, Tail(files))

FileLists ==
    LET FileKinds == {"new", "duplicate", "invalid", "corrupt"}
    IN UNION {[1..n -> FileKinds] : n \in 1..MaxFilesPerCall}

LoopIdle == wpc \in {"stopped", "sleep", "backoff"}

\* add_files_to_batch, given the rows bs and vs it finds: the rows it leaves
AddFilesToBatch(bs, vs, b, files) ==
    IF bs[b].status = "pending"
       /\ Len(files) <= MAX_FILES_PER_BATCH - bs[b].total_files
    THEN LET r == ProcessFiles(vs, b, files, <<>>)
         IN [bs |-> [bs EXCEPT
                        ![b].total_files = @ + SeqCount(r.results, "accepted"),
                        ![b].skipped_files = @ + SeqCount(r.results, "duplicate")],
             vs |-> r.vs]
    ELSE [bs |-> bs, vs |-> vs]

\* POST /batch/upload (and create_batch_from_folder): the batch is created
\* and the files are added to it within one request; the request does not
\* leave the event loop between the two (UploadFile.read of an in-memory
\* file returns without suspending)
UploadBatchFiles(files) ==
    /\ Len(batches) < MaxBatches
    /\ FilesFeasible(VerdictCount, files)
    /\ VerdictCount + SeqCount(files, "new") + SeqCount(files, "corrupt") <= MaxItems
    /\ LET b == Len(batches) + 1
           vs == [x \in 0..b |-> IF x \in DOMAIN verdicts THEN verdicts[x] ELSE <<>>]
           \* create_batch: the new row
           NewBatch == [status |-> "pending", total_files |-> 0, processed_files |-> 0,
                        successful_files |-> 0, failed_files |-> 0, skipped_files |-> 0]
           r == AddFilesToBatch(Append(batches, NewBatch), vs, b, files)
       IN /\ batches' = r.bs
          /\ verdicts' = r.vs
    /\ UNCHANGED <<is_running, wpc, batchQ, pendingQ, sem, tasks, bg, nReprocess>>
    /\ UNCHANGED <<itemVars, stageVars, pureVars>>

StartBatchProcessing(b) ==
    /\ batches[b].status = "pending"
    /\ batches[b].total_files # 0
    /\ batches' = [batches EXCEPT ![b].status = "processing"]
    /\ UNCHANGED <<verdicts, is_running, wpc, batchQ, pendingQ, sem, tasks, bg,
                   nReprocess>>
    /\ UNCHANGED <<itemVars, stageVars, pureVars>>

\* cancel_batch without its check of the status
CancelAnyBatch(b) ==
    /\ batches' = [batches EXCEPT ![b].status = "cancelled"]
    /\ UNCHANGED <<verdicts, is_running, wpc, batchQ, pendingQ, sem, tasks, bg,
                   nReprocess>>
    /\ UNCHANGED <<itemVars, stageVars, pureVars>>

CancelBatch(b) ==
    /\ batches[b].status \in {"pending", "processing"}
    /\ batches' = [batches EXCEPT ![b].status = "cancelled"]
    /\ UNCHANGED <<verdicts, is_running, wpc, batchQ, pendingQ, sem, tasks, bg,
                   nReprocess>>
    /\ UNCHANGED <<itemVars, stageVars, pureVars>>

(***************************************************************************)
(* Entry checks of the three pipeline stages                               *)
(***************************************************************************)
AnonymizeGuard(st) == st \notin {"new", "anonymized"}
AnalyzeGuard(st) == st \in {"extracted", "analyzed", "analyzing"}
GenerateGuard(row) == row.status \in {"analyzed", "article_created"} /\ ~row.article

(***************************************************************************)
(* BatchWorker                                                             *)
(*                                                                         *)
(* wpc: "stopped"  no loop task;                                           *)
(*      "poll"     _process_pending_verdicts is about to query batches;    *)
(*      "fetch"    about to query the pending verdicts of Head(batchQ);    *)
(*      "items"    in the loop over pending_verdicts;                      *)
(*      "await"    awaiting the _process_verdict it has called;            *)
(*      "update"   about to run _update_batch_statuses;                    *)
(*      "sleep"    in asyncio.sleep(poll_interval);                        *)
(*      "backoff"  in the asyncio.sleep(poll_interval) of `except Exception`.*)
(* _process_verdict awaits nothing, so the event loop serves requests only *)
(* while the loop task is in one of its sleeps or does not exist.          *)
(***************************************************************************)
\* the batch query without regard to cancellation
UnfinishedBatches == {b \in BatchIds : batches[b].status \in {"processing", "cancelled"}}

ProcessingBatches == {b \in BatchIds : batches[b].status = "processing"}

PendingVerdicts(b) ==
    LET idx == Ascending({i \in 1..Len(verdicts[b]) : verdicts[b][i].status = "extracted"})
    IN [k \in 1..(IF Len(idx) < max_concurrent THEN Len(idx) ELSE max_concurrent) |->
           <<b, idx[k]>>]

WorkerStart ==
    /\ ~is_running
    /\ is_running' = TRUE
    /\ sem' = max_concurrent
    /\ wpc' = "poll"
    /\ UNCHANGED <<batches, verdicts, batchQ, pendingQ, tasks, bg, nReprocess>>
    /\ UNCHANGED <<itemVars, stageVars, pureVars>>

\* stop() meeting the loop task wherever it is, as it would if
\* _process_verdict awaited something
WorkerStopAnywhere ==
    /\ is_running
    /\ is_running' = FALSE
    /\ wpc' = "stopped"
    /\ UNCHANGED <<batches, verdicts, batchQ, pendingQ, sem, tasks, bg, nReprocess>>
    /\ UNCHANGED <<itemVars, stageVars, pureVars>>

\* stop() runs on the event loop, so it meets the loop task in its sleep
WorkerStop ==
    /\ is_running
    /\ wpc \in {"sleep", "backoff"}
    /\ is_running' = FALSE
    /\ wpc' = "stopped"
    /\ UNCHANGED <<batches, verdicts, batchQ, pendingQ, sem, tasks, bg, nReprocess>>
    /\ UNCHANGED <<itemVars, stageVars, pureVars>>

WorkerPoll ==
    /\ wpc = "poll"
    /\ batchQ' = Ascending(ProcessingBatches)
    /\ pendingQ' = <<>>
    /\ wpc' = IF ProcessingBatches = {} THEN "update" ELSE "fetch"
    /\ UNCHANGED <<batches, verdicts, is_running, sem, tasks, bg, nReprocess>>
    /\ UNCHANGED <<itemVars, stageVars, pureVars>>

WorkerFetch ==
    /\ wpc = "fetch"
    /\ pendingQ' = PendingVerdicts(Head(batchQ))
    /\ wpc' = "items"
    /\ UNCHANGED <<batches, verdicts, is_running, batchQ, sem, tasks, bg, nReprocess>>
    /\ UNCHANGED <<itemVars, stageVars, pureVars>>

WorkerNextBatch ==
    /\ wpc = "items"
    /\ pendingQ = <<>>
    /\ batchQ' = Tail(batchQ)
    /\ wpc' = IF Tail(batchQ) = <<>> THEN "update" ELSE "fetch"
    /\ UNCHANGED <<batches, verdicts, is_running, pendingQ, sem, tasks, bg, nReprocess>>
    /\ UNCHANGED <<itemVars, stageVars, pureVars>>

\* The same loop body with the call spawned instead of awaited and no slot
\* taken first: the loop goes on to the next verdict at once.
WorkerSpawnItem ==
    /\ wpc = "items"
    /\ pendingQ # <<>>
    /\ is_running
    /\ sem' = sem - 1
    /\ verdicts' = SetStatus(verdicts, Head(pendingQ), "analyzing")
    /\ tasks' = tasks \cup {[id |-> Head(pendingQ), b |-> Head(batchQ), st |-> "analyze"]}
    /\ pendingQ' = Tail(pendingQ)
    /\ UNCHANGED <<batches, is_running, wpc, batchQ, bg, nReprocess>>
    /\ UNCHANGED <<itemVars, stageVars, pureVars>>

\* one turn of `for verdict in pending_verdicts`: the slot is taken and
\* _process_verdict runs to its first commit
WorkerStartItem ==
    /\ wpc = "items"
    /\ pendingQ # <<>>
    /\ is_running
    /\ sem > 0
    /\ sem' = sem - 1
    /\ verdicts' = SetStatus(verdicts, Head(pendingQ), "analyzing")
    /\ tasks' = tasks \cup {[id |-> Head(pendingQ), b |-> Head(batchQ), st |-> "analyze"]}
    /\ pendingQ' = Tail(pendingQ)
    /\ wpc' = "await"
    /\ UNCHANGED <<batches, is_running, batchQ, bg, nReprocess>>
    /\ UNCHANGED <<itemVars, stageVars, pureVars>>

\* _process_verdict returns: the slot is released and the awaiting loop resumes
TaskEnds(t) ==
    /\ tasks' = tasks \ {t}
    /\ sem' = sem + 1
    /\ wpc' = IF wpc = "await" THEN "items" ELSE wpc
    /\ UNCHANGED <<is_running, batchQ, pendingQ, bg, nReprocess>>

TaskMoves(t, st) ==
    /\ tasks' = (tasks \ {t}) \cup {[t EXCEPT !.st = st]}
    /\ UNCHANGED <<batches, is_running, wpc, batchQ, pendingQ, sem, bg, nReprocess>>

\* the same branches with the failure written to every verdict of the batch
TaskFailsBatch(t) ==
    /\ verdicts' = [verdicts EXCEPT ![t.b] =
            [i \in 1..Len(@) |-> [@[i] EXCEPT !.status = "failed", !.review_notes = TRUE]]]
    /\ batches' = UpdateBatchProgress(batches, t.b, FALSE)
    /\ TaskEnds(t)

\* the except branches of _process_verdict
TaskFails(t) ==
    /\ verdicts' = SetFailed(verdicts, t.id, "failed")
    /\ batches' = UpdateBatchProgress(batches, t.b, FALSE)
    /\ TaskEnds(t)

TaskAnalyzeEnter(t) ==
    /\ t.st = "analyze"
    /\ IF AnalyzeGuard(Row(t.id).status)
       THEN /\ verdicts' = SetStatus(verdicts, t.id, "analyzing")
            /\ TaskMoves(t, "analyzing")
       ELSE TaskFails(t)
    /\ UNCHANGED <<itemVars, stageVars, pureVars>>

TaskAnalyzeFinish(t, ok) ==
    /\ t.st = "analyzing"
    /\ IF ok
       THEN /\ verdicts' = SetStatus(verdicts, t.id, "analyzed")
            /\ TaskMoves(t, "generate")
       ELSE TaskFails(t)
    /\ UNCHANGED <<itemVars, stageVars, pureVars>>

TaskGenerateEnter(t) ==
    /\ t.st = "generate"
    /\ IF GenerateGuard(Row(t.id))
       THEN /\ verdicts' = SetStatus(verdicts, t.id, "article_creating")
            /\ TaskMoves(t, "generating")
       ELSE TaskFails(t)
    /\ UNCHANGED <<itemVars, stageVars, pureVars>>

\* how generate_article_from_verdict can end: the auto-publish step needs an
\* active WordPress site
GenerateOutcomes ==
    IF site THEN {"article_created", "published", "failed"}
    ELSE {"article_created", "failed"}

TaskGenerateFinish(t, outcome) ==
    /\ t.st = "generating"
    /\ IF outcome = "failed"
       THEN TaskFails(t)
       ELSE /\ verdicts' = [verdicts EXCEPT ![t.id[1]][t.id[2]] =
                                [@ EXCEPT !.status = outcome, !.article = TRUE]]
            /\ batches' = UpdateBatchProgress(batches, t.b, TRUE)
            /\ TaskEnds(t)
    /\ UNCHANGED <<itemVars, stageVars, pureVars>>

WorkerUpdateStatuses ==
    /\ wpc = "update"
    /\ batches' = [b \in BatchIds |->
                      IF /\ batches[b].status = "processing"
                         /\ \A i \in 1..Len(verdicts[b]) :
                               verdicts[b][i].status \notin
                                   {"extracted", "analyzing", "article_creating"}
                      THEN [batches[b] EXCEPT !.status = "completed"]
                      ELSE batches[b]]
    /\ wpc' = "sleep"
    /\ UNCHANGED <<verdicts, is_running, batchQ, pendingQ, sem, tasks, bg, nReprocess>>
    /\ UNCHANGED <<itemVars, stageVars, pureVars>>

WorkerWake ==
    /\ wpc = "sleep"
    /\ is_running
    /\ wpc' = "poll"
    /\ UNCHANGED <<batches, verdicts, is_running, batchQ, pendingQ, sem, tasks, bg,
                   nReprocess>>
    /\ UNCHANGED <<itemVars, stageVars, pureVars>>

\* the loop task ends on the exception: is_running stays set, nothing polls
WorkerLoopEnds ==
    /\ wpc = "backoff"
    /\ wpc' = "stopped"
    /\ UNCHANGED <<batches, verdicts, is_running, batchQ, pendingQ, sem, tasks, bg,
                   nReprocess>>
    /\ UNCHANGED <<itemVars, stageVars, pureVars>>

\* a query of the poll cycle raises (the database is unavailable): the
\* session is closed, `except Exception` of _worker_loop logs and sleeps
WorkerCycleError ==
    /\ wpc \in {"poll", "fetch", "update"}
    /\ wpc' = "backoff"
    /\ batchQ' = <<>>
    /\ pendingQ' = <<>>
    /\ UNCHANGED <<batches, verdicts, is_running, sem, tasks, bg, nReprocess>>
    /\ UNCHANGED <<itemVars, stageVars, pureVars>>

\* the sleep of the except branch returns and `while self.is_running` is
\* evaluated again
WorkerRetry ==
    /\ wpc = "backoff"
    /\ is_running
    /\ wpc' = "poll"
    /\ UNCHANGED <<batches, verdicts, is_running, batchQ, pendingQ, sem, tasks, bg,
                   nReprocess>>
    /\ UNCHANGED <<itemVars, stageVars, pureVars>>

(***************************************************************************)
(* POST /verdicts/{id}/reprocess and run_full_pipeline_background.         *)
(* The endpoint is a coroutine of the event loop; the background task is a *)
(* plain function, run in a pool thread, so its commits interleave with    *)
(* the commits of the worker.                                              *)
(***************************************************************************)
BgEnds(i) ==
    /\ bg' = Without(bg, i)
    /\ UNCHANGED <<batches, is_running, wpc, batchQ, pendingQ, sem, tasks, nReprocess>>

BgMoves(i, pc) ==
    /\ bg' = [bg EXCEPT ![i].pc = pc]
    /\ UNCHANGED <<batches, is_running, wpc, batchQ, pendingQ, sem, tasks, nReprocess>>

Reprocess(id) ==
    /\ LoopIdle
    /\ Len(bg) < MaxBg
    /\ nReprocess < MaxReprocess
    /\ Row(id).status # "new"
    /\ verdicts' = [verdicts EXCEPT ![id[1]][id[2]] =
            [status |-> "extracted", article |-> FALSE, review_notes |-> FALSE]]
    /\ bg' = Append(bg, [id |-> id, pc |-> "anonymize"])
    /\ nReprocess' = nReprocess + 1
    /\ UNCHANGED <<batches, is_running, wpc, batchQ, pendingQ, sem, tasks>>
    /\ UNCHANGED <<itemVars, stageVars, pureVars>>

BgAnonymizeEnter(i) ==
    /\ bg[i].pc = "anonymize"
    /\ IF AnonymizeGuard(Row(bg[i].id).status)
       THEN /\ verdicts' = SetStatus(verdicts, bg[i].id, "anonymizing")
            /\ BgMoves(i, "anonymizing")
       ELSE /\ UNCHANGED verdicts
            /\ BgMoves(i, "raised")
    /\ UNCHANGED <<itemVars, stageVars, pureVars>>

BgAnonymizeFinish(i, ok) ==
    /\ bg[i].pc = "anonymizing"
    /\ IF ok
       THEN /\ verdicts' = SetStatus(verdicts, bg[i].id, "anonymized")
            /\ BgMoves(i, "analyze")
       ELSE /\ verdicts' = SetFailed(verdicts, bg[i].id, "extracted")
            /\ BgMoves(i, "raised")
    /\ UNCHANGED <<itemVars, stageVars, pureVars>>

BgAnalyzeEnter(i) ==
    /\ bg[i].pc = "analyze"
    /\ IF AnalyzeGuard(Row(bg[i].id).status)
       THEN /\ verdicts' = SetStatus(verdicts, bg[i].id, "analyzing")
            /\ BgMoves(i, "analyzing")
       ELSE /\ UNCHANGED verdicts
            /\ BgMoves(i, "raised")
    /\ UNCHANGED <<itemVars, stageVars, pureVars>>

BgAnalyzeFinish(i, ok) ==
    /\ bg[i].pc = "analyzing"
    /\ IF ok
       THEN /\ verdicts' = SetStatus(verdicts, bg[i].id, "analyzed")
            /\ BgMoves(i, "generate")
       ELSE /\ verdicts' = SetFailed(verdicts, bg[i].id, "failed")
            /\ BgMoves(i, "raised")
    /\ UNCHANGED <<itemVars, stageVars, pureVars>>

BgGenerateEnter(i) ==
    /\ bg[i].pc = "generate"
    /\ IF GenerateGuard(Row(bg[i].id))
       THEN /\ verdicts' = SetStatus(verdicts, bg[i].id, "article_creating")
            /\ BgMoves(i, "generating")
       ELSE /\ UNCHANGED verdicts
            /\ BgMoves(i, "raised")
    /\ UNCHANGED <<itemVars, stageVars, pureVars>>

BgGenerateFinish(i, outcome) ==
    /\ bg[i].pc = "generating"
    /\ IF outcome = "failed"
       THEN /\ verdicts' = SetStatus(verdicts, bg[i].id, "failed")
            /\ BgMoves(i, "raised")
       ELSE /\ verdicts' = [verdicts EXCEPT ![bg[i].id[1]][bg[i].id[2]] =
                                [@ EXCEPT !.status = outcome, !.article = TRUE]]
            /\ BgEnds(i)
    /\ UNCHANGED <<itemVars, stageVars, pureVars>>

\* the except branch of run_full_pipeline_background
BgHandleError(i) ==
    /\ bg[i].pc = "raised"
    /\ verdicts' = SetFailed(verdicts, bg[i].id, "failed")
    /\ BgEnds(i)
    /\ UNCHANGED <<itemVars, stageVars, pureVars>>

(***************************************************************************)
(* One verdict in detail (SpecItem): rows and locals                       *)
(***************************************************************************)
\* the Verdict row of SpecStages after process_file_upload: which stage
\* outputs are present (non-null) on it
\*   anonymized   anonymized_text, anonymization_report
\*   analysis     key_facts, legal_questions, legal_principles, practical_insights
\*   references   compensation_amount, compensation_breakdown, relevant_laws,
\*                precedents_cited
\*   articles     an Article row of the verdict exists
UploadedVerdict ==
    [status |-> "extracted", anonymized |-> FALSE, analysis |-> FALSE,
     references |-> FALSE, articles |-> FALSE, review_notes |-> FALSE]

MAX_GENERATION_ATTEMPTS == 3
MIN_SCORE_THRESHOLD == 80
max_retries == 1
HINT_THRESHOLD == 70
DEFAULT_SCORE == 70

Categories == {"content", "seo", "readability", "eeat"}
NoScores == <<>>

NoNotes == [kind |-> "none", cause |-> "none", scores |-> NoScores]
ItemIdle == [status |-> "extracted", progress |-> 0, review_notes |-> NoNotes]

NoArticle ==
    [exists |-> FALSE, content |-> {}, scores |-> NoScores, quality_issues |-> {},
     publish_status |-> "none", wordpress_post_id |-> FALSE]

\* pc and the locals of generate_article_from_verdict / ArticleGenerator.generate;
\* scored and fails record the history of the run: the number of attempts
\* scored so far, and the categories found below threshold in any of them
RunIdle ==
    [pc |-> "idle", attempt |-> 0, call |-> 0, hints |-> {}, draft |-> <<>>,
     scores |-> NoScores, previous_scores |-> NoScores, error |-> NoNotes,
     reported |-> "none", scored |-> 0, fails |-> {}]

\* the frame of the service call is gone: only pc and the history remain
Exit(r, pc) ==
    [RunIdle EXCEPT !.pc = pc, !.error = r.error, !.reported = r.reported,
                    !.scored = r.scored, !.fails = r.fails]

(***************************************************************************)
(* The batch world                                                         *)
(***************************************************************************)
\* no text is being cut and no chunked de-identification runs
NoChunks == [pc |-> "idle", list |-> <<>>]
NoMerge ==
    [pc |-> "idle", total_chunks |-> 0, results |-> <<>>, highest_risk |-> "low",
     needs_review |-> FALSE, requires_manual_review |-> FALSE]

\* safe_parse_json has not been called
NotParsed == [pc |-> "idle", kind |-> "none", value |-> <<>>]

\* publish_article_with_retry has not been called; the Article row is a draft
NoPublish ==
    [pc |-> "idle", status |-> "draft", max_retries |-> 0, attempt |-> 0, results |-> <<>>,
     publish_status |-> "draft", committed |-> "draft", raised |-> "none", reported |-> 0]

\* no verdict has been uploaded
EmptyStore ==
    [rows |-> <<>>, created |-> 0,
     last |-> [outcome |-> "none", file_hash |-> 0, overwrite |-> FALSE, existing |-> 0]]

PureIdle ==
    /\ text = <<>>
    /\ chunk_size = 1
    /\ chunks = NoChunks
    /\ merge = NoMerge
    /\ parsed = NotParsed
    /\ publish = NoPublish
    /\ store = EmptyStore

SchedInit ==
    /\ batches = <<>>
    /\ verdicts = [b \in {0} |-> <<>>]
    /\ is_running = FALSE
    /\ wpc = "stopped"
    /\ batchQ = <<>>
    /\ pendingQ = <<>>
    /\ sem = 0
    /\ tasks = {}
    /\ bg = <<>>
    /\ nReprocess = 0

Init ==
    /\ SchedInit
    /\ item = ItemIdle
    /\ run = RunIdle
    /\ article = NoArticle
    /\ site = FALSE
    /\ verdict = UploadedVerdict
    /\ jobs = <<>>
    /\ PureIdle

Next ==
    \/ LoopIdle /\ Len(batches) < MaxBatches /\ \E files \in FileLists : UploadBatchFiles(files)
    \/ LoopIdle /\ \E b \in BatchIds : StartBatchProcessing(b)
    \/ LoopIdle /\ \E b \in BatchIds : CancelBatch(b)
    \/ WorkerStart
    \/ WorkerStop
    \/ WorkerPoll
    \/ WorkerFetch
    \/ WorkerNextBatch
    \/ WorkerStartItem
    \/ \E t \in tasks : TaskAnalyzeEnter(t)
    \/ \E t \in tasks, ok \in BOOLEAN : TaskAnalyzeFinish(t, ok)
    \/ \E t \in tasks : TaskGenerateEnter(t)
    \/ \E t \in tasks, outcome \in GenerateOutcomes : TaskGenerateFinish(t, outcome)
    \/ WorkerUpdateStatuses
    \/ WorkerWake

Spec == Init /\ [][Next]_vars

\* the worker loop while it runs: its task is scheduled whenever it can go
\* on (asyncio.sleep returns, an awaited call returns), and every call made
\* by _process_verdict returns or raises
WorkerLoop ==
    \/ WorkerPoll
    \/ WorkerFetch
    \/ WorkerNextBatch
    \/ WorkerStartItem
    \/ WorkerUpdateStatuses
    \/ WorkerWake

TaskStep ==
    \/ \E t \in tasks : TaskAnalyzeEnter(t)
    \/ \E t \in tasks, ok \in BOOLEAN : TaskAnalyzeFinish(t, ok)
    \/ \E t \in tasks : TaskGenerateEnter(t)
    \/ \E t \in tasks, outcome \in GenerateOutcomes : TaskGenerateFinish(t, outcome)

SpecFair == Spec /\ WF_vars(WorkerLoop) /\ WF_vars(TaskStep)

SpecFaults ==
    /\ Init
    /\ [][Next \/ WorkerCycleError \/ WorkerRetry]_vars
    /\ WF_vars(WorkerLoop)
    /\ WF_vars(WorkerRetry)
    /\ WF_vars(TaskStep)

\* the batch world of SpecRuns is that of Spec within MaxRunItems verdicts
NextRuns ==
    \/ LoopIdle /\ Len(batches) < MaxBatches
                /\ \E files \in FileLists :
                      UploadBatchFiles(files) /\ VerdictCount' <= MaxRunItems
    \/ LoopIdle /\ \E b \in BatchIds : StartBatchProcessing(b)
    \/ LoopIdle /\ \E b \in BatchIds : CancelBatch(b)
    \/ WorkerStart
    \/ WorkerStop
    \/ WorkerPoll
    \/ WorkerFetch
    \/ WorkerNextBatch
    \/ WorkerStartItem
    \/ \E t \in tasks : TaskAnalyzeEnter(t)
    \/ \E t \in tasks, ok \in BOOLEAN : TaskAnalyzeFinish(t, ok)
    \/ \E t \in tasks : TaskGenerateEnter(t)
    \/ \E t \in tasks, outcome \in GenerateOutcomes : TaskGenerateFinish(t, outcome)
    \/ WorkerUpdateStatuses
    \/ WorkerWake
    \/ \E id \in VerdictIds : Reprocess(id)
    \/ \E i \in 1..Len(bg) : BgAnonymizeEnter(i)
    \/ \E i \in 1..Len(bg), ok \in BOOLEAN : BgAnonymizeFinish(i, ok)
    \/ \E i \in 1..Len(bg) : BgAnalyzeEnter(i)
    \/ \E i \in 1..Len(bg), ok \in BOOLEAN : BgAnalyzeFinish(i, ok)
    \/ \E i \in 1..Len(bg) : BgGenerateEnter(i)
    \/ \E i \in 1..Len(bg), outcome \in GenerateOutcomes : BgGenerateFinish(i, outcome)
    \/ \E i \in 1..Len(bg) : BgHandleError(i)

SpecRuns == Init /\ [][NextRuns]_vars

(***************************************************************************)
(* One verdict in detail (SpecItem): BatchWorker._process_verdict          *)
(***************************************************************************)
Overall(sc) ==
    (30 * sc["content"] + 30 * sc["seo"] + 20 * sc["readability"] + 20 * sc["eeat"]) \div 100

\* the gate on the overall score alone
OverallPassed(sc) == Overall(sc) >= MIN_SCORE_THRESHOLD

\* all_passed of the retry loop
AllPassed(sc) ==
    /\ sc["content"] >= MIN_SCORE_THRESHOLD
    /\ sc["seo"] >= MIN_SCORE_THRESHOLD
    /\ sc["readability"] >= MIN_SCORE_THRESHOLD
    /\ sc["eeat"] >= MIN_SCORE_THRESHOLD

FailedMetrics(sc) == {c \in Categories : sc[c] < MIN_SCORE_THRESHOLD}

BuildImprovementHints(prev) == {c \in Categories : prev[c] < HINT_THRESHOLD}

\* QualityChecker.check_all as far as the privacy check goes: an
\* error-severity issue, outside the four category scores
QualityIssues(content) == IF "pii" \in content THEN {"pii_check"} ELSE {}

WorkerBegin ==
    /\ run.pc = "idle"
    /\ item' = [item EXCEPT !.status = "analyzing", !.progress = 10]
    /\ run' = [run EXCEPT !.pc = "analyze_enter"]
    /\ UNCHANGED <<article, site>>
    /\ UNCHANGED <<schedVars, stageVars, pureVars>>

AnalyzeEnter ==
    /\ run.pc = "analyze_enter"
    /\ IF AnalyzeGuard(item.status)
       THEN /\ item' = [item EXCEPT !.status = "analyzing", !.progress = 35]
            /\ run' = [run EXCEPT !.pc = "analyze_basis"]
       ELSE /\ run' = [run EXCEPT !.pc = "analysis_raised",
                                  !.error = [NoNotes EXCEPT !.kind = "value_error"]]
            /\ UNCHANGED item
    /\ UNCHANGED <<article, site>>
    /\ UNCHANGED <<schedVars, stageVars, pureVars>>

AnalyzeBasis ==
    /\ run.pc = "analyze_basis"
    /\ item' = [item EXCEPT !.progress = 40]
    /\ run' = [run EXCEPT !.pc = "analyze_text"]
    /\ UNCHANGED <<article, site>>
    /\ UNCHANGED <<schedVars, stageVars, pureVars>>

AnalyzeText(ok) ==
    /\ run.pc = "analyze_text"
    /\ IF ok
       THEN /\ item' = [item EXCEPT !.progress = 50]
            /\ run' = [run EXCEPT !.pc = "analyze_decision"]
       ELSE /\ item' = [item EXCEPT !.status = "failed", !.progress = 35,
                            !.review_notes = [NoNotes EXCEPT !.kind = "analysis_failed"]]
            /\ run' = [run EXCEPT !.pc = "analysis_raised",
                                  !.error = [NoNotes EXCEPT !.kind = "analysis_error"]]
    /\ UNCHANGED <<article, site>>
    /\ UNCHANGED <<schedVars, stageVars, pureVars>>

AnalyzeDecision ==
    /\ run.pc = "analyze_decision"
    /\ item' = [item EXCEPT !.progress = 55]
    /\ run' = [run EXCEPT !.pc = "analyze_keywords"]
    /\ UNCHANGED <<article, site>>
    /\ UNCHANGED <<schedVars, stageVars, pureVars>>

AnalyzeKeywords ==
    /\ run.pc = "analyze_keywords"
    /\ item' = [item EXCEPT !.progress = 60]
    /\ run' = [run EXCEPT !.pc = "analyze_done"]
    /\ UNCHANGED <<article, site>>
    /\ UNCHANGED <<schedVars, stageVars, pureVars>>

AnalyzeDone ==
    /\ run.pc = "analyze_done"
    /\ item' = [item EXCEPT !.status = "analyzed", !.progress = 65]
    /\ run' = [run EXCEPT !.pc = "generate_enter"]
    /\ UNCHANGED <<article, site>>
    /\ UNCHANGED <<schedVars, stageVars, pureVars>>

WorkerAnalysisFailed ==
    /\ run.pc = "analysis_raised"
    /\ item' = [item EXCEPT !.status = "failed",
                    !.review_notes = [kind |-> "analysis_failed", cause |-> run.error.kind,
                                      scores |-> run.error.scores]]
    /\ run' = [Exit(run, "done") EXCEPT !.reported = "failure"]
    /\ UNCHANGED <<article, site>>
    /\ UNCHANGED <<schedVars, stageVars, pureVars>>

GenerateEnter ==
    /\ run.pc = "generate_enter"
    /\ IF GenerateGuard([status |-> item.status, article |-> article.exists])
       THEN /\ item' = [item EXCEPT !.status = "article_creating", !.progress = 60]
            /\ run' = [run EXCEPT !.pc = "attempt", !.attempt = 1,
                                  !.previous_scores = NoScores]
       ELSE /\ run' = [run EXCEPT !.pc = "generation_raised",
                                  !.error = [NoNotes EXCEPT !.kind = "value_error"]]
            /\ UNCHANGED item
    /\ UNCHANGED <<article, site>>
    /\ UNCHANGED <<schedVars, stageVars, pureVars>>

\* top of the retry loop, up to the call of generator.generate
AttemptBegin ==
    /\ run.pc = "attempt"
    /\ item' = [item EXCEPT !.progress = 60 + (run.attempt - 1) * 15]
    /\ run' = [run EXCEPT
            !.pc = "generate",
            !.call = 0,
            !.hints = IF run.attempt > 1 /\ run.previous_scores # NoScores
                      THEN BuildImprovementHints(run.previous_scores)
                      ELSE {}]
    /\ UNCHANGED <<article, site>>
    /\ UNCHANGED <<schedVars, stageVars, pureVars>>

\* one API call inside ArticleGenerator.generate; result is what comes back:
\* "ok" a parsed draft of 700 words or more, "short" a parsed draft below
\* 700 words, "error" the API call raises, "unparseable" no JSON is recovered
GeneratorCall(result, content) ==
    /\ run.pc = "generate"
    /\ IF result = "ok" \/ (result = "short" /\ run.call >= max_retries)
       THEN /\ item' = [item EXCEPT !.progress = 60 + (run.attempt - 1) * 15 + 3]
            /\ run' = [run EXCEPT !.pc = "score", !.draft = <<content>>]
       ELSE IF run.call < max_retries
            THEN /\ run' = [run EXCEPT !.call = @ + 1]
                 /\ UNCHANGED item
            ELSE \* generate raises ArticleGeneratorError; the outer except of
                 \* generate_article_from_verdict rolls back and raises
                 /\ run' = [Exit(run, "generation_raised") EXCEPT
                                !.error = [NoNotes EXCEPT !.kind = "generator_error"]]
                 /\ UNCHANGED item
    /\ UNCHANGED <<article, site>>
    /\ UNCHANGED <<schedVars, stageVars, pureVars>>

\* the loop without its gate: the first scored attempt is taken as it is
ScoreNoRetry(sc) ==
    /\ run.pc = "score"
    /\ item' = [item EXCEPT !.progress = 95]
    /\ run' = [run EXCEPT !.pc = "save", !.scores = sc, !.scored = @ + 1,
                          !.fails = @ \cup FailedMetrics(sc),
                          !.previous_scores = NoScores, !.hints = {}, !.call = 0]
    /\ UNCHANGED <<article, site>>
    /\ UNCHANGED <<schedVars, stageVars, pureVars>>

\* the loop with its bound off by one: a failed attempt MAX_GENERATION_ATTEMPTS
\* is followed by one more
ScoreOneMore(sc) ==
    /\ run.pc = "score"
    /\ LET r == [run EXCEPT !.scores = sc, !.scored = @ + 1,
                            !.fails = @ \cup FailedMetrics(sc)]
       IN IF AllPassed(sc)
          THEN /\ item' = [item EXCEPT !.progress = 95]
               /\ run' = [r EXCEPT !.pc = "save", !.previous_scores = NoScores,
                                   !.hints = {}, !.call = 0]
          ELSE IF run.attempt <= MAX_GENERATION_ATTEMPTS
               THEN /\ run' = [r EXCEPT !.pc = "attempt", !.attempt = @ + 1,
                                        !.previous_scores = sc, !.scores = NoScores,
                                        !.draft = <<>>]
                    /\ UNCHANGED item
               ELSE /\ item' = [item EXCEPT
                            !.status = "failed", !.progress = 60,
                            !.review_notes = [kind |-> "quality_below_threshold",
                                              cause |-> "none", scores |-> sc]]
                    /\ run' = [Exit(r, "generation_raised") EXCEPT
                            !.error = [kind |-> "quality_below_threshold",
                                       cause |-> "none", scores |-> sc]]
    /\ UNCHANGED <<article, site>>
    /\ UNCHANGED <<schedVars, stageVars, pureVars>>

\* score_article and the gate: sc are the scores it returns (all
\* DEFAULT_SCORE when the scoring itself fails)
Score(sc) ==
    /\ run.pc = "score"
    /\ LET r == [run EXCEPT !.scores = sc, !.scored = @ + 1,
                            !.fails = @ \cup FailedMetrics(sc)]
       IN IF AllPassed(sc)
          THEN \* break: of the locals only article_content and scores are read again
               /\ item' = [item EXCEPT !.progress = 95]
               /\ run' = [r EXCEPT !.pc = "save", !.previous_scores = NoScores,
                                   !.hints = {}, !.call = 0]
          ELSE IF run.attempt < MAX_GENERATION_ATTEMPTS
               THEN /\ run' = [r EXCEPT !.pc = "attempt", !.attempt = @ + 1,
                                        !.previous_scores = sc, !.scores = NoScores,
                                        !.draft = <<>>]
                    /\ UNCHANGED item
               ELSE /\ item' = [item EXCEPT
                            !.status = "failed", !.progress = 60,
                            !.review_notes = [kind |-> "quality_below_threshold",
                                              cause |-> "none", scores |-> sc]]
                    /\ run' = [Exit(r, "generation_raised") EXCEPT
                            !.error = [kind |-> "quality_below_threshold",
                                       cause |-> "none", scores |-> sc]]
    /\ UNCHANGED <<article, site>>
    /\ UNCHANGED <<schedVars, stageVars, pureVars>>

SaveArticle ==
    /\ run.pc = "save"
    /\ article' = [exists |-> TRUE, content |-> run.draft[1], scores |-> run.scores,
                   quality_issues |-> QualityIssues(run.draft[1]),
                   publish_status |-> "draft", wordpress_post_id |-> FALSE]
    /\ item' = [item EXCEPT !.progress = 92]
    /\ run' = [run EXCEPT !.pc = "created", !.draft = <<>>, !.scores = NoScores]
    /\ UNCHANGED site
    /\ UNCHANGED <<schedVars, stageVars, pureVars>>

MarkCreated ==
    /\ run.pc = "created"
    /\ item' = [item EXCEPT !.status = "article_created", !.progress = 95]
    /\ run' = [run EXCEPT !.pc = "publish"]
    /\ UNCHANGED <<article, site>>
    /\ UNCHANGED <<schedVars, stageVars, pureVars>>

\* WordPressService.publish_article(status = "publish"); ok: the WordPress
\* client accepts the post
PublishArticle(a, ok) ==
    IF ok
    THEN [a EXCEPT !.content = @ \ {"foreign"}, !.wordpress_post_id = TRUE,
                   !.publish_status = "published"]
    ELSE [a EXCEPT !.content = @ \ {"foreign"}, !.publish_status = "failed"]

AutoPublish(ok) ==
    /\ run.pc = "publish"
    /\ IF site
       THEN /\ article' = PublishArticle(article, ok)
            /\ item' = [item EXCEPT
                    !.status = IF ok THEN "published" ELSE "article_created",
                    !.progress = 100]
       ELSE /\ item' = [item EXCEPT !.status = "article_created", !.progress = 100]
            /\ UNCHANGED article
    /\ run' = Exit(run, "returned")
    /\ UNCHANGED site
    /\ UNCHANGED <<schedVars, stageVars, pureVars>>

WorkerGenerationFailed ==
    /\ run.pc = "generation_raised"
    /\ item' = [item EXCEPT !.status = "failed",
                    !.review_notes = [kind |-> "generation_failed", cause |-> run.error.kind,
                                      scores |-> run.error.scores]]
    /\ run' = [Exit(run, "done") EXCEPT !.reported = "failure"]
    /\ UNCHANGED <<article, site>>
    /\ UNCHANGED <<schedVars, stageVars, pureVars>>

WorkerSucceeded ==
    /\ run.pc = "returned"
    /\ run' = [Exit(run, "done") EXCEPT !.reported = "success"]
    /\ UNCHANGED <<item, article, site>>
    /\ UNCHANGED <<schedVars, stageVars, pureVars>>

\* POST /wordpress/publish/{article_id} with status "publish", any time after
ManualPublish(ok) ==
    /\ run.pc = "done"
    /\ article.exists
    /\ site
    /\ article.publish_status # "published"
    /\ article' = PublishArticle(article, ok)
    /\ UNCHANGED <<item, run, site>>
    /\ UNCHANGED <<schedVars, stageVars, pureVars>>

ScoreOutcomes ==
    [Categories -> {60, 75, 80, 95}] \cup {[c \in Categories |-> DEFAULT_SCORE]}

InitItem ==
    /\ SchedInit
    /\ item = ItemIdle
    /\ run = RunIdle
    /\ article = NoArticle
    /\ site \in BOOLEAN
    /\ verdict = UploadedVerdict
    /\ jobs = <<>>
    /\ PureIdle

NextItem ==
    \/ WorkerBegin
    \/ AnalyzeEnter
    \/ AnalyzeBasis
    \/ \E ok \in BOOLEAN : AnalyzeText(ok)
    \/ AnalyzeDecision
    \/ AnalyzeKeywords
    \/ AnalyzeDone
    \/ WorkerAnalysisFailed
    \/ GenerateEnter
    \/ AttemptBegin
    \* content: what the draft's public fields hold besides Hebrew prose, a
    \* personally identifying pattern (QualityChecker.PII_PATTERNS) or
    \* foreign-script characters
    \/ \E result \in {"ok", "short", "error", "unparseable"},
          content \in SUBSET {"pii", "foreign"} :
          GeneratorCall(result, content)
    \/ \E sc \in ScoreOutcomes : Score(sc)
    \/ SaveArticle
    \/ MarkCreated
    \/ \E ok \in BOOLEAN : AutoPublish(ok)
    \/ WorkerGenerationFailed
    \/ WorkerSucceeded
    \/ \E ok \in BOOLEAN : ManualPublish(ok)

SpecItem == InitItem /\ [][NextItem]_vars

(***************************************************************************)
(* The stage endpoints on one verdict (SpecStages)                         *)
(*                                                                         *)
(* jobs: the service calls in progress, [kind, pc].  The kinds             *)
(*   "anonymization", "analysis", "generation", "pipeline" are background  *)
(*   tasks (pool threads); "re_anonymize", "re_analyze" are service calls  *)
(*   made inside the request, which hold the event loop until they return. *)
(* Calls interleave at their database commits.                             *)
(***************************************************************************)
VerdictStatuses ==
    {"new", "extracting", "extracted", "anonymizing", "anonymized", "analyzing",
     "analyzed", "article_creating", "article_created", "published", "failed"}

\* the event loop is free to serve a request
LoopFree == \A i \in 1..Len(jobs) : jobs[i].kind \notin {"re_anonymize", "re_analyze"}

JobEnds(i) == jobs' = Without(jobs, i)
JobMoves(i, pc) == jobs' = [jobs EXCEPT ![i].pc = pc]
JobNext(i, pc) == IF jobs[i].kind = "pipeline" THEN JobMoves(i, pc) ELSE JobEnds(i)

\* VerdictService.reset_verdict
reset_verdict(row, target_status) ==
    [status |-> target_status,
     anonymized |-> IF target_status = "extracted" THEN FALSE ELSE row.anonymized,
     analysis |-> IF target_status \in {"extracted", "anonymized"}
                  THEN FALSE ELSE row.analysis,
     references |-> IF target_status \in {"extracted", "anonymized"}
                    THEN FALSE ELSE row.references,
     articles |-> FALSE,
     review_notes |-> FALSE]

\* PATCH /verdicts/{id}/status
UpdateVerdictStatus(st) ==
    /\ LoopFree
    /\ verdict' = [verdict EXCEPT !.status = st]
    /\ UNCHANGED jobs
    /\ UNCHANGED <<schedVars, itemVars, pureVars>>

\* POST /verdicts/{id}/anonymize
AnonymizeRequest ==
    /\ LoopFree
    /\ Len(jobs) < MaxJobs
    /\ verdict.status \notin {"new", "anonymizing", "anonymized"}
    /\ verdict' = [verdict EXCEPT !.status = "anonymizing"]
    /\ jobs' = Append(jobs, [kind |-> "anonymization", pc |-> "anonymize"])
    /\ UNCHANGED <<schedVars, itemVars, pureVars>>

\* POST /verdicts/{id}/re-anonymize, up to the first commit of
\* re_anonymize_verdict
ReAnonymizeRequest ==
    /\ LoopFree
    /\ Len(jobs) < MaxJobs
    /\ verdict' = [verdict EXCEPT !.anonymized = FALSE, !.status = "extracted"]
    /\ jobs' = Append(jobs, [kind |-> "re_anonymize", pc |-> "anonymize"])
    /\ UNCHANGED <<schedVars, itemVars, pureVars>>

\* POST /articles/verdicts/{id}/analyze
AnalyzeRequest ==
    /\ LoopFree
    /\ Len(jobs) < MaxJobs
    /\ verdict.status \in {"anonymized", "analyzed"}
    /\ verdict' = [verdict EXCEPT !.status = "analyzing"]
    /\ jobs' = Append(jobs, [kind |-> "analysis", pc |-> "analyze"])
    /\ UNCHANGED <<schedVars, itemVars, pureVars>>

\* POST /articles/verdicts/{id}/re-analyze, up to the first commit of
\* re_analyze_verdict
ReAnalyzeRequest ==
    /\ LoopFree
    /\ Len(jobs) < MaxJobs
    /\ verdict' = [verdict EXCEPT !.analysis = FALSE, !.status = "anonymized"]
    /\ jobs' = Append(jobs, [kind |-> "re_analyze", pc |-> "analyze"])
    /\ UNCHANGED <<schedVars, itemVars, pureVars>>

\* POST /articles/generate/{id}
GenerateRequest ==
    /\ LoopFree
    /\ Len(jobs) < MaxJobs
    /\ verdict.status \in {"analyzed", "article_created"}
    /\ ~verdict.articles
    /\ jobs' = Append(jobs, [kind |-> "generation", pc |-> "generate"])
    /\ UNCHANGED verdict
    /\ UNCHANGED <<schedVars, itemVars, pureVars>>

\* POST /verdicts/{id}/reprocess
ReprocessRequest ==
    /\ LoopFree
    /\ Len(jobs) < MaxJobs
    /\ verdict.status # "new"
    /\ verdict' = reset_verdict(verdict, "extracted")
    /\ jobs' = Append(jobs, [kind |-> "pipeline", pc |-> "anonymize"])
    /\ UNCHANGED <<schedVars, itemVars, pureVars>>


\* anonymize_verdict up to its first commit
JobAnonymizeEnter(i) ==
    /\ jobs[i].pc = "anonymize"
    /\ IF AnonymizeGuard(verdict.status)
       THEN /\ verdict' = [verdict EXCEPT !.status = "anonymizing"]
            /\ JobMoves(i, "anonymizing")
       ELSE /\ UNCHANGED verdict
            /\ JobMoves(i, "raised")
    /\ UNCHANGED <<schedVars, itemVars, pureVars>>

\* the rest of anonymize_verdict; review: the anonymizer asks for a manual
\* review and gives notes
JobAnonymizeFinish(i, ok, review) ==
    /\ jobs[i].pc = "anonymizing"
    /\ IF ok
       THEN /\ verdict' = [verdict EXCEPT !.anonymized = TRUE, !.status = "anonymized",
                                          !.review_notes = @ \/ review]
            /\ JobNext(i, "analyze")
       ELSE /\ verdict' = [verdict EXCEPT !.status = "extracted", !.review_notes = TRUE]
            /\ JobMoves(i, "raised")
    /\ UNCHANGED <<schedVars, itemVars, pureVars>>

\* analyze_verdict up to its first commit
JobAnalyzeEnter(i) ==
    /\ jobs[i].pc = "analyze"
    /\ IF AnalyzeGuard(verdict.status)
       THEN /\ verdict' = [verdict EXCEPT !.status = "analyzing"]
            /\ JobMoves(i, "analyzing")
       ELSE /\ UNCHANGED verdict
            /\ JobMoves(i, "raised")
    /\ UNCHANGED <<schedVars, itemVars, pureVars>>

\* analyze_text and the commits that store its result; refs: the result
\* holds a compensation or legal references
JobAnalyzeStore(i, ok, refs) ==
    /\ jobs[i].pc = "analyzing"
    /\ IF ok
       THEN /\ verdict' = [verdict EXCEPT !.analysis = TRUE, !.references = @ \/ refs]
            /\ JobMoves(i, "stored")
       ELSE /\ verdict' = [verdict EXCEPT !.status = "failed", !.review_notes = TRUE]
            /\ JobMoves(i, "raised")
    /\ UNCHANGED <<schedVars, itemVars, pureVars>>

\* the last commit of analyze_verdict
JobAnalyzeFinish(i) ==
    /\ jobs[i].pc = "stored"
    /\ verdict' = [verdict EXCEPT !.status = "analyzed"]
    /\ JobNext(i, "generate")
    /\ UNCHANGED <<schedVars, itemVars, pureVars>>

\* generate_article_from_verdict up to its first commit
JobGenerateEnter(i) ==
    /\ jobs[i].pc = "generate"
    /\ IF GenerateGuard([status |-> verdict.status, article |-> verdict.articles])
       THEN /\ verdict' = [verdict EXCEPT !.status = "article_creating"]
            /\ JobMoves(i, "generating")
       ELSE /\ UNCHANGED verdict
            /\ JobMoves(i, "raised")
    /\ UNCHANGED <<schedVars, itemVars, pureVars>>

\* the rest of generate_article_from_verdict
JobGenerateFinish(i, outcome) ==
    /\ jobs[i].pc = "generating"
    /\ IF outcome = "failed"
       THEN /\ verdict' = [verdict EXCEPT !.status = "failed", !.review_notes = TRUE]
            /\ JobMoves(i, "raised")
       ELSE /\ verdict' = [verdict EXCEPT !.status = outcome, !.articles = TRUE]
            /\ JobEnds(i)
    /\ UNCHANGED <<schedVars, itemVars, pureVars>>

\* the except branch of the background task; a request answers with an
\* HTTP error and writes nothing
JobHandleError(i) ==
    /\ jobs[i].pc = "raised"
    /\ verdict' = IF jobs[i].kind \in {"anonymization", "analysis", "generation", "pipeline"}
                  THEN [verdict EXCEPT !.status = "failed", !.review_notes = TRUE]
                  ELSE verdict
    /\ JobEnds(i)
    /\ UNCHANGED <<schedVars, itemVars, pureVars>>

InitStages ==
    /\ SchedInit
    /\ item = ItemIdle
    /\ run = RunIdle
    /\ article = NoArticle
    /\ site \in BOOLEAN
    /\ verdict = UploadedVerdict
    /\ jobs = <<>>
    /\ PureIdle

NextStages ==
    \/ \E st \in VerdictStatuses : UpdateVerdictStatus(st)
    \/ AnonymizeRequest
    \/ ReAnonymizeRequest
    \/ AnalyzeRequest
    \/ ReAnalyzeRequest
    \/ GenerateRequest
    \/ ReprocessRequest
    \/ \E i \in 1..Len(jobs) : JobAnonymizeEnter(i)
    \/ \E i \in 1..Len(jobs), ok \in BOOLEAN, review \in BOOLEAN :
          JobAnonymizeFinish(i, ok, review)
    \/ \E i \in 1..Len(jobs) : JobAnalyzeEnter(i)
    \/ \E i \in 1..Len(jobs), ok \in BOOLEAN, refs \in BOOLEAN : JobAnalyzeStore(i, ok, refs)
    \/ \E i \in 1..Len(jobs) : JobAnalyzeFinish(i)
    \/ \E i \in 1..Len(jobs) : JobGenerateEnter(i)
    \/ \E i \in 1..Len(jobs), outcome \in GenerateOutcomes : JobGenerateFinish(i, outcome)
    \/ \E i \in 1..Len(jobs) : JobHandleError(i)

SpecStages == InitStages /\ [][NextStages]_vars

(***************************************************************************)
(* reset_verdict on its own (SpecReset): any row, any target status        *)
(***************************************************************************)
ResetCall(target_status) ==
    /\ verdict' = reset_verdict(verdict, target_status)
    /\ UNCHANGED jobs
    /\ UNCHANGED <<schedVars, itemVars, pureVars>>

InitReset ==
    /\ SchedInit
    /\ item = ItemIdle
    /\ run = RunIdle
    /\ article = NoArticle
    /\ site = FALSE
    /\ verdict \in [status : VerdictStatuses, anonymized : BOOLEAN, analysis : BOOLEAN,
                   references : BOOLEAN, articles : BOOLEAN, review_notes : BOOLEAN]
    /\ jobs = <<>>
    /\ PureIdle

SpecReset ==
    InitReset /\ [][\E target_status \in VerdictStatuses : ResetCall(target_status)]_vars

(***************************************************************************)
(* Claims about the batch world                                            *)
(***************************************************************************)

\* C1: for every batch, in every reachable state, processed_files equals
\* successful_files + failed_files + skipped_files.
ProcessedIsSumOfOutcomes ==
    \A b \in BatchIds :
        batches[b].processed_files =
            batches[b].successful_files + batches[b].failed_files + batches[b].skipped_files

\* the pipeline runs active on a verdict: _process_verdict calls of the
\* worker, and background pipelines that have entered their first stage
RunsOn(id) ==
    Cardinality({t \in tasks : t.id = id})
    + Cardinality({i \in 1..Len(bg) : bg[i].id = id /\ bg[i].pc # "anonymize"})

\* C3: at most one pipeline run is active on a verdict at any time: the
\* worker and the pipeline started by the reprocess endpoint never both run
\* the same verdict.
OneRunPerItem == \A id \in VerdictIds : RunsOn(id) <= 1

InFlight == Cardinality(tasks)

Eligible ==
    {id \in VerdictIds : id[1] \in ProcessingBatches /\ Row(id).status = "extracted"}

\* C10: at every moment the number of verdicts the worker has in flight (slot
\* taken, _process_verdict not yet returned) is at most max_concurrent.
InFlightWithinMaxConcurrent == InFlight <= max_concurrent

\* C10 witness: a verdict is in flight while max_concurrent or more further
\* verdicts of processing batches are eligible.
InFlightWhileOthersWait == InFlight >= 1 /\ Cardinality(Eligible) >= max_concurrent

Completed(b, sts) ==
    Cardinality({i \in 1..Len(verdicts[b]) : verdicts[b][i].status \in sts})

NoStartAfterCancel ==
    [][\A b \in BatchIds :
          batches[b].status = "cancelled"
          => /\ batches'[b].status = "cancelled"
             /\ \A i \in 1..Len(verdicts[b]) :
                   /\ verdicts[b][i].status = "extracted"
                         => verdicts'[b][i].status = "extracted"
                   /\ verdicts[b][i].status \in {"analyzing", "article_creating"}
                         => \E t \in tasks : t.id = <<b, i>>]_vars

\* C14 witness: a batch was cancelled after the worker had processed some
\* of its verdicts, verdicts of it are still EXTRACTED, and the worker has
\* since polled and passed the batch by.
CancelledBatchPassedBy ==
    \E b \in BatchIds :
        /\ batches[b].status = "cancelled"
        /\ batches[b].processed_files >= 1
        /\ \E i \in 1..Len(verdicts[b]) : verdicts[b][i].status = "extracted"
        /\ is_running /\ wpc = "update"

\* C15: a step that makes a batch completed leaves no verdict of that
\* batch EXTRACTED, ANALYZING or ARTICLE_CREATING.
CompletedOnlyWhenDrained ==
    [][\A b \in BatchIds :
          (batches[b].status # "completed" /\ batches'[b].status = "completed")
          => Cardinality({i \in 1..Len(verdicts'[b]) :
                 verdicts'[b][i].status \in {"extracted", "analyzing", "article_creating"}})
             = 0]_vars

\* C16: whenever the worker moves a verdict to ANALYZING, the verdict's
\* de-identification has completed: its status before the step is ANONYMIZED.
WorkerAnalyzesOnlyAnonymized ==
    [][\A t \in tasks' \ tasks :
          verdicts'[t.b][t.id[2]].status = "analyzing"
          => verdicts[t.b][t.id[2]].status = "anonymized"]_vars

(***************************************************************************)
(* Claims about one verdict                                                *)
(***************************************************************************)

\* C2: while a pipeline run is active on the verdict, every progress value
\* written to it is greater than or equal to the value written before.
ProgressNeverDecreases == [][item'.progress >= item.progress]_vars

\* the scores of the attempt the loop has just scored
LastScored(r) ==
    IF r.pc = "save" THEN r.scores
    ELSE IF r.pc = "attempt" THEN r.previous_scores
    ELSE r.error.scores

\* C4: a scored attempt passes the gate if and only if each of the four
\* category scores is at least 80.
GateIsPerCategory ==
    [][(run.pc = "score" /\ run'.pc # "score")
        => ((run'.pc = "save") <=> (\A c \in Categories : LastScored(run')[c] >= 80))]_vars

\* C4 witness: the scores {95, 60, 95, 95}, whose weighted overall score
\* is above 80, have been scored and the attempt was rejected.
DominantCategoryRejected ==
    /\ run.pc = "attempt"
    /\ run.previous_scores =
          [c \in Categories |-> IF c = "seo" THEN 60 ELSE 95]
    /\ Overall(run.previous_scores) > 80

\* C5: a draft in which the privacy check finds a personally identifying
\* pattern is never accepted as a passing attempt, whatever its scores.
LeakFailsGate == run.pc = "save" => "pii_check" \notin QualityIssues(run.draft[1])

\* C6: an article whose draft held a detected privacy leak is never handed
\* to WordPress and its verdict never becomes PUBLISHED.
LeakNeverPublished ==
    (article.exists /\ "pii_check" \in article.quality_issues)
        => (item.status # "published" /\ ~article.wordpress_post_id
            /\ article.publish_status \notin {"published", "failed"})

\* the run is over, it never had an attempt that passed, the generator
\* returned a draft every time, and the same single category was below
\* threshold in every attempt
AlwaysFailedOneCategory ==
    /\ run.pc = "done"
    /\ run.reported = "failure"
    /\ run.scored >= 1
    /\ run.error.kind # "generator_error"
    /\ Cardinality(run.fails) = 1

ArticleOnlyAfterPass ==
    /\ article.exists => \A c \in Categories : article.scores[c] >= 80
    /\ item.status \in {"article_created", "published"} => article.exists
    /\ run.error.kind = "quality_below_threshold"
          => (~article.exists /\ run.reported # "success"
              /\ run.pc \in {"generation_raised", "done"})

\* C8 witness: an Article was created by a run whose second attempt passed.
ArticleAfterSecondAttempt ==
    /\ article.exists
    /\ item.status = "article_created"
    /\ run.scored = 2

\* C9: a failure of the generator on an attempt before the last is followed
\* by the next attempt; the run ends on it only when no attempt remains.
GeneratorFailureRetried ==
    [][(run.pc = "generate" /\ run'.pc = "generation_raised")
        => run.attempt = MAX_GENERATION_ATTEMPTS]_vars

(***************************************************************************)
(* Claims about the stages of one verdict                                  *)
(***************************************************************************)

\* a service call has entered stage st in this step: the status becomes st
\* and a call was started or moved on (a PATCH of the status moves no call)
Enters(st) == verdict'.status = st /\ verdict.status # st /\ jobs' # jobs

\* C17: a stage is entered only from its prerequisite status:
\* de-identification from EXTRACTED, analysis from ANONYMIZED, generation
\* from ANALYZED.
StageEntryGuarded ==
    [][/\ Enters("anonymizing") => verdict.status = "extracted"
       /\ Enters("analyzing") => verdict.status = "anonymized"
       /\ Enters("article_creating") => verdict.status = "analyzed"]_vars

\* C18: no step takes a verdict from NEW to ANALYZING.
NoAnalyzingFromNew ==
    [][verdict.status = "new" => verdict'.status # "analyzing"]_vars

\* the outputs on a row do not go beyond its status
NoOutputsBeyond(row) ==
    /\ row.status \in {"new", "extracting", "extracted"}
          => ~row.anonymized /\ ~row.analysis /\ ~row.references /\ ~row.articles
    /\ row.status \in {"anonymizing", "anonymized"}
          => ~row.analysis /\ ~row.references /\ ~row.articles

\* C19: after reset_verdict(verdict, target_status) the status is
\* target_status and no output of a later stage is left: none at all for
\* EXTRACTED or earlier, no analysis and no Article for ANONYMIZING or
\* ANONYMIZED, no Article for ANALYZING or ANALYZED.
ResetDiscardsDownstream ==
    [][/\ NoOutputsBeyond(verdict')
       /\ verdict'.status \in {"analyzing", "analyzed"} => ~verdict'.articles]_vars

\* C20: in every reachable state the outputs stored on the verdict do not
\* go beyond its status.
OutputsWithinState == NoOutputsBeyond(verdict)

\* C21: a verdict in state FAILED has a recorded failure reason (review_notes
\* is set), whichever operation moved it to FAILED.
FailedHasReason ==
    \A id \in VerdictIds : Row(id).status = "failed" => Row(id).review_notes

PollErrorRetried == (wpc = "backoff") ~> (wpc = "poll" \/ ~is_running)

\* C23 witness: a poll cycle that processed a verdict raised afterwards (in
\* _update_batch_statuses or in the next query) and the loop waits, running.
CycleErrorCaught ==
    /\ wpc = "backoff"
    /\ is_running
    /\ \E b \in BatchIds : batches[b].processed_files > 0

(***************************************************************************)
(* Anonymizer: cutting a text into chunks                                  *)
(*                                                                         *)
(* A text is a sequence of characters: a letter, a full stop, a blank, a   *)
(* line feed and a carriage return stand for the classes the code tells    *)
(* apart (\s, [.!?], the line endings it normalises, everything else).     *)
(* chunk_size is MAX_CHUNK_SIZE.                                           *)
(* chunks: [pc, list]; pc is "idle" before anonymize is called, "single"   *)
(* when the text went to _anonymize_single whole, "chunked" when           *)
(* _anonymize_chunked cut it, "raised" when anonymize rejected it, "split"  *)
(* when _split_into_chunks was called on the text directly.                *)
(***************************************************************************)
Whitespace == {" ", "\n", "\r", "\t", "\f"}

SetMax(S) == CHOOSE x \in S : \A y \in S : y <= x

\* text.replace('\r\n', '\n').replace('\r', '\n')
RECURSIVE Normalize(_)
Normalize(t) ==
    IF t = <<>> THEN <<>>
    ELSE IF Head(t) = "\r"
         THEN <<"\n">> \o Normalize(IF Len(t) > 1 /\ t[2] = "\n"
                                    THEN Tail(Tail(t)) ELSE Tail(t))
         ELSE <<Head(t)>> \o Normalize(Tail(t))

\* str.strip()
Strip(s) ==
    LET first == {i \in 1..Len(s) : s[i] \notin Whitespace}
    IN IF first = {} THEN <<>>
       ELSE SubSeq(s, CHOOSE i \in first : \A j \in first : i <= j,
                      CHOOSE i \in first : \A j \in first : i >= j)

\* str.join
RECURSIVE Join(_, _)
Join(parts, sep) ==
    IF parts = <<>> THEN <<>>
    ELSE IF Len(parts) = 1 THEN parts[1]
         ELSE parts[1] \o sep \o Join(Tail(parts), sep)

\* re.split(r'\n\s*\n', t): the piece in progress starts at from, the scan is at i
RECURSIVE SplitParagraphs(_, _, _)
SplitParagraphs(t, from, i) ==
    IF i > Len(t) THEN <<SubSeq(t, from, Len(t))>>
    ELSE LET ends == {j \in (i + 1)..Len(t) :
                        t[j] = "\n" /\ \A k \in (i + 1)..(j - 1) : t[k] \in Whitespace}
             \* where the match of \n\s*\n that starts at i ends, 0 if there is none
             j == IF t[i] = "\n" /\ ends # {} THEN SetMax(ends) ELSE 0
         IN IF j > 0
            THEN <<SubSeq(t, from, i - 1)>> \o SplitParagraphs(t, j + 1, j + 1)
            ELSE SplitParagraphs(t, from, i + 1)

\* [p.strip() for p in paragraphs if p.strip()]
StrippedNonEmpty(ps) ==
    SelectSeq([k \in 1..Len(ps) |-> Strip(ps[k])], LAMBDA p : p # <<>>)

\* re.split(r'(?<=[.!?])\s+', t)
RECURSIVE SplitSentences(_, _, _)
SplitSentences(t, from, i) ==
    IF i > Len(t) THEN <<SubSeq(t, from, Len(t))>>
    ELSE LET \* where the match of (?<=[.!?])\s+ that starts at i ends, 0 if none
             j == IF i > 1 /\ t[i - 1] = "." /\ t[i] \in Whitespace
                  THEN SetMax({e \in i..Len(t) : \A k \in i..e : t[k] \in Whitespace})
                  ELSE 0
         IN IF j > 0
            THEN <<SubSeq(t, from, i - 1)>> \o SplitSentences(t, j + 1, j + 1)
            ELSE SplitSentences(t, from, i + 1)

\* str.split(): cur is the word in progress
RECURSIVE SplitWords(_, _)
SplitWords(t, cur) ==
    LET done == IF cur = <<>> THEN <<>> ELSE <<cur>>
    IN IF t = <<>> THEN done
       ELSE IF Head(t) \in Whitespace THEN done \o SplitWords(Tail(t), <<>>)
            ELSE SplitWords(Tail(t), Append(cur, Head(t)))

\* `if current_chunk: chunks.append(sep.join(current_chunk))`
Flush(cs, current_chunk, sep) ==
    IF current_chunk # <<>> THEN Append(cs, Join(current_chunk, sep)) ELSE cs

\* the loop over the words of a sentence that is longer than a chunk
RECURSIVE PackWords(_, _, _, _, _)
PackWords(words, size, cs, word_chunk, word_size) ==
    IF words = <<>> THEN Flush(cs, word_chunk, <<" ">>)
    ELSE LET word == Head(words)
         IN IF word_size + Len(word) + 1 > size /\ word_chunk # <<>>
            THEN PackWords(Tail(words), size, Flush(cs, word_chunk, <<" ">>),
                           <<word>>, Len(word))
            ELSE PackWords(Tail(words), size, cs,
                           Append(word_chunk, word), word_size + Len(word) + 1)

\* the loop over the sentences in _force_split_by_size
RECURSIVE PackSentences(_, _, _, _, _)
PackSentences(sentences, size, cs, current_chunk, current_size) ==
    IF sentences = <<>> THEN Flush(cs, current_chunk, <<" ">>)
    ELSE LET sentence == Head(sentences)
             sentence_size == Len(sentence)
         IN IF sentence_size > size
            THEN PackSentences(Tail(sentences), size,
                     PackWords(SplitWords(sentence, <<>>), size,
                               Flush(cs, current_chunk, <<" ">>), <<>>, 0),
                     <<>>, 0)
            ELSE IF current_size + sentence_size > size /\ current_chunk # <<>>
                 THEN PackSentences(Tail(sentences), size,
                          Flush(cs, current_chunk, <<" ">>), <<sentence>>, sentence_size)
                 ELSE PackSentences(Tail(sentences), size, cs,
                          Append(current_chunk, sentence), current_size + sentence_size + 1)

\* Anonymizer._force_split_by_size
force_split_by_size(t, size) ==
    LET cs == PackSentences(SplitSentences(t, 1, 1), size, <<>>, <<>>, 0)
    IN IF cs # <<>> THEN cs ELSE <<t>>

\* the same loop closing the chunk as soon as the size is reached
RECURSIVE PackParagraphsAtLimit(_, _, _, _, _)
PackParagraphsAtLimit(paragraphs, size, cs, current_chunk, current_size) ==
    IF paragraphs = <<>> THEN Flush(cs, current_chunk, <<"\n", "\n">>)
    ELSE LET para == Head(paragraphs)
             para_size == Len(para)
         IN IF para_size > size
            THEN PackParagraphsAtLimit(Tail(paragraphs), size,
                     Flush(cs, current_chunk, <<"\n", "\n">>)
                         \o force_split_by_size(para, size),
                     <<>>, 0)
            ELSE IF current_size + para_size >= size /\ current_chunk # <<>>
                 THEN PackParagraphsAtLimit(Tail(paragraphs), size,
                          Flush(cs, current_chunk, <<"\n", "\n">>), <<para>>, para_size)
                 ELSE PackParagraphsAtLimit(Tail(paragraphs), size, cs,
                          Append(current_chunk, para), current_size + para_size + 2)

\* the loop over the paragraphs in _split_into_chunks
RECURSIVE PackParagraphs(_, _, _, _, _)
PackParagraphs(paragraphs, size, cs, current_chunk, current_size) ==
    IF paragraphs = <<>> THEN Flush(cs, current_chunk, <<"\n", "\n">>)
    ELSE LET para == Head(paragraphs)
             para_size == Len(para)
         IN IF para_size > size
            THEN PackParagraphs(Tail(paragraphs), size,
                     Flush(cs, current_chunk, <<"\n", "\n">>)
                         \o force_split_by_size(para, size),
                     <<>>, 0)
            ELSE IF current_size + para_size > size /\ current_chunk # <<>>
                 THEN PackParagraphs(Tail(paragraphs), size,
                          Flush(cs, current_chunk, <<"\n", "\n">>), <<para>>, para_size)
                 ELSE PackParagraphs(Tail(paragraphs), size, cs,
                          Append(current_chunk, para), current_size + para_size + 2)

\* Anonymizer._split_into_chunks
split_into_chunks(t, size) ==
    LET paragraphs == StrippedNonEmpty(SplitParagraphs(Normalize(t), 1, 1))
    IN IF Len(paragraphs) <= 1 /\ Len(t) > size
       THEN force_split_by_size(t, size)
       ELSE LET cs == PackParagraphs(paragraphs, size, <<>>, <<>>, 0)
            IN IF cs # <<>> THEN cs ELSE <<t>>

\* Anonymizer.anonymize: `if not text or not text.strip(): raise`
AnonymizeRejects ==
    /\ chunks.pc = "idle"
    /\ Strip(text) = <<>>
    /\ chunks' = [pc |-> "raised", list |-> <<>>]
    /\ UNCHANGED <<text, chunk_size, merge, parsed, publish, store>>
    /\ UNCHANGED <<schedVars, itemVars, stageVars>>

\* Anonymizer.anonymize, len(text) <= MAX_CHUNK_SIZE: the text is sent whole
AnonymizeSingle ==
    /\ chunks.pc = "idle"
    /\ Strip(text) # <<>>
    /\ Len(text) <= chunk_size
    /\ chunks' = [pc |-> "single", list |-> <<text>>]
    /\ UNCHANGED <<text, chunk_size, merge, parsed, publish, store>>
    /\ UNCHANGED <<schedVars, itemVars, stageVars>>

\* Anonymizer.anonymize, len(text) > MAX_CHUNK_SIZE: _anonymize_chunked cuts it
AnonymizeChunked ==
    /\ chunks.pc = "idle"
    /\ Strip(text) # <<>>
    /\ Len(text) > chunk_size
    /\ chunks' = [pc |-> "chunked", list |-> split_into_chunks(text, chunk_size)]
    /\ UNCHANGED <<text, chunk_size, merge, parsed, publish, store>>
    /\ UNCHANGED <<schedVars, itemVars, stageVars>>

\* Anonymizer._split_into_chunks called on a text of any length
SplitIntoChunks ==
    /\ chunks.pc = "idle"
    /\ chunks' = [pc |-> "split", list |-> split_into_chunks(text, chunk_size)]
    /\ UNCHANGED <<text, chunk_size, merge, parsed, publish, store>>
    /\ UNCHANGED <<schedVars, itemVars, stageVars>>

InitChunks ==
    /\ SchedInit
    /\ item = ItemIdle
    /\ run = RunIdle
    /\ article = NoArticle
    /\ site = FALSE
    /\ verdict = UploadedVerdict
    /\ jobs = <<>>
    /\ text \in UNION {[1..n -> {"a", ".", " ", "\n", "\r"}] : n \in 0..MaxTextLen}
    /\ chunk_size \in 1..MaxChunkSize
    /\ chunks = NoChunks
    /\ merge = NoMerge
    /\ parsed = NotParsed
    /\ publish = NoPublish
    /\ store = EmptyStore

SpecChunks ==
    /\ InitChunks
    /\ [][
              \/ AnonymizeRejects
              \/ AnonymizeSingle
              \/ AnonymizeChunked
              \/ SplitIntoChunks
         ]_vars

\* C24: joining the chunks of a text reproduces the text exactly.  The code
\* keeps no separators: _anonymize_chunked joins the parts with a blank line.
ChunksRejoinToText ==
    chunks.pc \in {"single", "chunked", "split"}
        => Join(chunks.list, <<"\n", "\n">>) = text

\* C25: a text no longer than the chunk size yields exactly one chunk, a
\* text of exactly the chunk size included, both through anonymize and
\* through the chunker called directly.
ShortTextOneChunk ==
    (chunks.pc \in {"single", "chunked", "split"} /\ Len(text) <= chunk_size)
        => Len(chunks.list) = 1

\* C25 witness: a text of exactly the chunk size that holds two paragraphs
\* went through the chunker and came out as one chunk.
BoundaryTextWithParagraphs ==
    /\ chunks.pc = "split"
    /\ Len(text) = chunk_size
    /\ Len(StrippedNonEmpty(SplitParagraphs(Normalize(text), 1, 1))) = 2
    /\ Len(chunks.list) = 1

\* C26: every text one character longer than the chunk size is split into
\* at least two chunks (texts that anonymize accepts: not blank).
LongerTextSplits ==
    (/\ chunks.pc \in {"chunked", "split"}
     /\ Strip(text) # <<>>
     /\ Len(text) = chunk_size + 1)
        => Len(chunks.list) >= 2

\* the words of a text all fit into a chunk
WordsFit(t, size) ==
    LET words == SplitWords(t, <<>>)
    IN \A k \in 1..Len(words) : Len(words[k]) <= size

\* C27: when no word of the text is longer than the chunk size, every chunk
\* is at most the chunk size long, whichever of the paragraph, sentence and
\* word paths produced it (texts that anonymize accepts: not blank).
ChunksWithinSize ==
    (/\ chunks.pc \in {"single", "chunked", "split"}
     /\ Strip(text) # <<>>
     /\ WordsFit(text, chunk_size))
        => \A k \in 1..Len(chunks.list) : Len(chunks.list[k]) <= chunk_size

(***************************************************************************)
(* Anonymizer._anonymize_chunked: merging the results of the chunks        *)
(*                                                                         *)
(* merge: [pc, total_chunks, results, highest_risk, needs_review]; results *)
(* holds, chunk by chunk, the risk_level _anonymize_single returned, or    *)
(* "error" where it raised and the chunk was kept as it was.  After the    *)
(* result is returned, anonymize_verdict stores it on the verdict:         *)
(* requires_manual_review is the flag of the row, pc is then "stored".     *)
(***************************************************************************)
RiskLevels == {"low", "medium", "high"}

\* the merged level is the level of the chunk at hand
LastRisk(highest_risk, chunk_risk) == chunk_risk

\* `if chunk_risk == "high" or (chunk_risk == "medium" and highest_risk == "low")`
MergeRisk(highest_risk, chunk_risk) ==
    IF chunk_risk = "high" \/ (chunk_risk = "medium" /\ highest_risk = "low")
    THEN chunk_risk
    ELSE highest_risk

\* _anonymize_single returns for the next chunk
ChunkAnonymized(overall_risk, requires_review) ==
    /\ merge.pc = "loop"
    /\ Len(merge.results) < merge.total_chunks
    /\ LET \* _transform_result: an invalid overall_risk becomes medium
           chunk_risk == IF overall_risk \in RiskLevels THEN overall_risk ELSE "medium"
       IN merge' = [merge EXCEPT
                       !.results = Append(@, chunk_risk),
                       !.highest_risk = MergeRisk(@, chunk_risk),
                       !.needs_review = @ \/ requires_review]
    /\ UNCHANGED <<text, chunk_size, chunks, parsed, publish, store>>
    /\ UNCHANGED <<schedVars, itemVars, stageVars>>

\* the except branch of the loop without its needs_review = True
ChunkFailedUnflagged ==
    /\ merge.pc = "loop"
    /\ Len(merge.results) < merge.total_chunks
    /\ merge' = [merge EXCEPT !.results = Append(@, "error")]
    /\ UNCHANGED <<text, chunk_size, chunks, parsed, publish, store>>
    /\ UNCHANGED <<schedVars, itemVars, stageVars>>

\* _anonymize_single raises for the next chunk: the chunk is kept as it is
ChunkFailed ==
    /\ merge.pc = "loop"
    /\ Len(merge.results) < merge.total_chunks
    /\ merge' = [merge EXCEPT !.results = Append(@, "error"), !.needs_review = TRUE]
    /\ UNCHANGED <<text, chunk_size, chunks, parsed, publish, store>>
    /\ UNCHANGED <<schedVars, itemVars, stageVars>>

\* the loop is over: the merged result is returned
MergeReturns ==
    /\ merge.pc = "loop"
    /\ Len(merge.results) = merge.total_chunks
    /\ merge' = [merge EXCEPT !.pc = "returned"]
    /\ UNCHANGED <<text, chunk_size, chunks, parsed, publish, store>>
    /\ UNCHANGED <<schedVars, itemVars, stageVars>>

\* anonymize_verdict stores the result it got: the flag of the row is
\* requires_review of the result or a HIGH privacy risk
StoreAnonymized ==
    /\ merge.pc = "returned"
    /\ merge' = [merge EXCEPT
            !.pc = "stored",
            !.requires_manual_review = merge.needs_review \/ merge.highest_risk = "high"]
    /\ UNCHANGED <<text, chunk_size, chunks, parsed, publish, store>>
    /\ UNCHANGED <<schedVars, itemVars, stageVars>>

InitMerge ==
    /\ SchedInit
    /\ item = ItemIdle
    /\ run = RunIdle
    /\ article = NoArticle
    /\ site = FALSE
    /\ verdict = UploadedVerdict
    /\ jobs = <<>>
    /\ text = <<>>
    /\ chunk_size = 1
    /\ chunks = NoChunks
    /\ \E n \in 1..MaxChunks : merge = [NoMerge EXCEPT !.pc = "loop", !.total_chunks = n]
    /\ parsed = NotParsed
    /\ publish = NoPublish
    /\ store = EmptyStore

SpecMerge ==
    /\ InitMerge
    /\ [][
              \* overall_risk: what the model may answer, a level or anything else
              \/ \E overall_risk \in RiskLevels \cup {"other"}, requires_review \in BOOLEAN :
                    ChunkAnonymized(overall_risk, requires_review)
              \/ ChunkFailed
              \/ MergeReturns
              \/ StoreAnonymized
         ]_vars

\* low < medium < high
RiskRank(r) == CASE r = "low" -> 1 [] r = "medium" -> 2 [] r = "high" -> 3

\* the highest of the risk levels in a sequence of chunk results, low if
\* no chunk has one
RECURSIVE MaxRisk(_)
MaxRisk(results) ==
    IF results = <<>> THEN "low"
    ELSE LET rest == MaxRisk(Tail(results))
         IN IF Head(results) \in RiskLevels /\ RiskRank(Head(results)) > RiskRank(rest)
            THEN Head(results)
            ELSE rest

\* C28: the merged risk level is the maximum of the risk levels of the
\* chunks under low < medium < high, whatever their order.
MergedRiskIsMax == merge.highest_risk = MaxRisk(merge.results)

\* C28 witness: the chunk levels low, high, low were merged to high.
LowHighLowMerged ==
    /\ merge.pc = "returned"
    /\ merge.results = <<"low", "high", "low">>
    /\ merge.highest_risk = "high"

(***************************************************************************)
(* utils/json_repair.py                                                    *)
(*                                                                         *)
(* The text is a sequence of characters; the characters of JsonChars are   *)
(* those the parser and the repairs tell apart: the brackets, the quote,   *)
(* colon and comma, a digit, a line feed (whitespace to the parser and to  *)
(* the repairs), a form feed (whitespace to the repairs, a control         *)
(* character to the parser) and the backtick of a markdown fence, written  *)
(* "~" here.  The repairs add the backslash and the letters of the escapes *)
(* they write.                                                             *)
(* parsed: [pc, kind, value]; pc is "idle" before safe_parse_json(text) is *)
(* called, then "returned" or "raised"; kind is "value", "None" or the     *)
(* exception.  A parsed value is written as its text without whitespace.   *)
(***************************************************************************)
JsonTexts ==
    LET JsonChars == {"{", "}", "[", "]", "\"", ":", ",", "1", "\n", "\f", "~"}
    IN UNION {[1..n -> JsonChars] : n \in 0..MaxJsonLen}

\* json.loads(s): the scanner of the json module on the characters above.
\* A value is returned as its text without whitespace; a failure is the
\* exception raised.
Loads(s) ==
    LET JsonSpace == {" ", "\n", "\t", "\r"}
        Digits == {"1"}
        ControlChars == {"\n", "\t", "\r", "\f"}
        \* the first index from i on that holds no whitespace
        RECURSIVE SkipSpace(_, _)
        SkipSpace(t, i) == IF i <= Len(t) /\ t[i] \in JsonSpace THEN SkipSpace(t, i + 1) ELSE i
        \* what a scan yields: a value and where it ends, or the exception raised
        Decoded(v, pos) == [kind |-> "value", pos |-> pos, value |-> v]
        JSONDecodeError == [kind |-> "JSONDecodeError", pos |-> 0, value |-> <<>>]
        RecursionError == [kind |-> "RecursionError", pos |-> 0, value |-> <<>>]
        \* json.decoder.scanstring (strict): i is behind the opening quote
        RECURSIVE ScanString(_, _, _)
        ScanString(t, i, acc) ==
            IF i > Len(t) THEN JSONDecodeError
            ELSE IF t[i] = "\"" THEN Decoded(<<"\"">> \o acc \o <<"\"">>, i + 1)
            ELSE IF t[i] = "\\"
                 THEN IF i + 1 > Len(t) THEN JSONDecodeError
                      ELSE IF t[i + 1] = "n" THEN ScanString(t, i + 2, Append(acc, "\n"))
                      ELSE IF t[i + 1] = "t" THEN ScanString(t, i + 2, Append(acc, "\t"))
                      ELSE IF t[i + 1] \in {"\"", "\\"}
                           THEN ScanString(t, i + 2, Append(acc, t[i + 1]))
                           ELSE JSONDecodeError
            ELSE IF t[i] \in ControlChars THEN JSONDecodeError
            ELSE ScanString(t, i + 1, Append(acc, t[i]))
        RECURSIVE DigitsEnd(_, _)
        DigitsEnd(t, i) == IF i <= Len(t) /\ t[i] \in Digits THEN DigitsEnd(t, i + 1) ELSE i
        \* dict[key] = value on the pairs read so far
        SetPair(pairs, key, value) ==
            IF \E k \in 1..Len(pairs) : pairs[k].key = key
            THEN [k \in 1..Len(pairs) |->
                     IF pairs[k].key = key THEN [key |-> key, value |-> value] ELSE pairs[k]]
            ELSE Append(pairs, [key |-> key, value |-> value])
        PairTexts(pairs) == [k \in 1..Len(pairs) |-> pairs[k].key \o <<":">> \o pairs[k].value]
        \* json.scanner: scan_once, the array and the object parser.  A nested array
        \* or object is one more recursive call; beyond RecursionLimit of them the
        \* interpreter raises RecursionError.
        RECURSIVE ScanOnce(_, _, _)
        RECURSIVE ParseArray(_, _, _, _)
        RECURSIVE ParseObject(_, _, _, _)
        ScanOnce(t, i, depth) ==
            IF i > Len(t) THEN JSONDecodeError
            ELSE IF t[i] = "\"" THEN ScanString(t, i + 1, <<>>)
            ELSE IF t[i] = "{"
                 THEN IF depth >= RecursionLimit THEN RecursionError
                      ELSE ParseObject(t, SkipSpace(t, i + 1), depth + 1, <<>>)
            ELSE IF t[i] = "["
                 THEN IF depth >= RecursionLimit THEN RecursionError
                      ELSE ParseArray(t, SkipSpace(t, i + 1), depth + 1, <<>>)
            ELSE IF t[i] \in Digits THEN Decoded(SubSeq(t, i, DigitsEnd(t, i) - 1), DigitsEnd(t, i))
            ELSE JSONDecodeError
        \* i is behind `[` or `,` and the whitespace after it
        ParseArray(t, i, depth, items) ==
            IF items = <<>> /\ i <= Len(t) /\ t[i] = "]" THEN Decoded(<<"[", "]">>, i + 1)
            ELSE LET val == ScanOnce(t, i, depth)
                 IN IF val.kind # "value" THEN val
                    ELSE LET j == SkipSpace(t, val.pos)
                             all == Append(items, val.value)
                         IN IF j > Len(t) THEN JSONDecodeError
                            ELSE IF t[j] = "]"
                                 THEN Decoded(<<"[">> \o Join(all, <<",">>) \o <<"]">>, j + 1)
                            ELSE IF t[j] = ","
                                 THEN ParseArray(t, SkipSpace(t, j + 1), depth, all)
                                 ELSE JSONDecodeError
        \* i is behind `{` or `,` and the whitespace after it
        ParseObject(t, i, depth, pairs) ==
            IF pairs = <<>> /\ i <= Len(t) /\ t[i] = "}" THEN Decoded(<<"{", "}">>, i + 1)
            ELSE IF i > Len(t) \/ t[i] # "\"" THEN JSONDecodeError
            ELSE LET key == ScanString(t, i + 1, <<>>)
                 IN IF key.kind # "value" THEN key
                    ELSE LET c == SkipSpace(t, key.pos)
                         IN IF c > Len(t) \/ t[c] # ":" THEN JSONDecodeError
                            ELSE LET val == ScanOnce(t, SkipSpace(t, c + 1), depth)
                                 IN IF val.kind # "value" THEN val
                                    ELSE LET j == SkipSpace(t, val.pos)
                                             all == SetPair(pairs, key.value, val.value)
                                         IN IF j > Len(t) THEN JSONDecodeError
                                            ELSE IF t[j] = "}"
                                                 THEN Decoded(<<"{">> \o Join(PairTexts(all), <<",">>)
                                                                  \o <<"}">>, j + 1)
                                            ELSE IF t[j] = ","
                                                 THEN ParseObject(t, SkipSpace(t, j + 1), depth, all)
                                                 ELSE JSONDecodeError
        r == ScanOnce(s, SkipSpace(s, 1), 0)
    IN IF r.kind = "value" /\ SkipSpace(s, r.pos) <= Len(s) THEN JSONDecodeError ELSE r

\* str.find from index i on (indices from 1; 0 when pat does not occur)
Find(t, pat, i) ==
    LET at == {k \in i..Len(t) : /\ k >= 1
                                 /\ k + Len(pat) - 1 <= Len(t)
                                 /\ SubSeq(t, k, k + Len(pat) - 1) = pat}
    IN IF at = {} THEN 0 ELSE CHOOSE k \in at : \A m \in at : k <= m

\* extract_from_markdown
extract_from_markdown(s) ==
    LET Fence == <<"~", "~", "~">>
        FenceJson == Fence \o <<"j", "s", "o", "n">>
        \* str.split('\n'): cur is the line in progress
        RECURSIVE SplitLines(_, _)
        SplitLines(t, cur) ==
            IF t = <<>> THEN <<cur>>
            ELSE IF Head(t) = "\n" THEN <<cur>> \o SplitLines(Tail(t), <<>>)
                 ELSE SplitLines(Tail(t), Append(cur, Head(t)))
        \* the lines before the first one that starts with a fence
        RECURSIVE LinesBeforeFence(_)
        LinesBeforeFence(lines) ==
            IF lines = <<>> \/ Find(Strip(Head(lines)), Fence, 1) = 1 THEN <<>>
            ELSE <<Head(lines)>> \o LinesBeforeFence(Tail(lines))
        \* the loop over start_patterns: what follows the first pattern found, up
        \* to the closing fence if there is one
        RECURSIVE AfterStartPattern(_, _)
        AfterStartPattern(t, patterns) ==
            IF patterns = <<>> THEN t
            ELSE LET at == Find(t, Head(patterns), 1)
                 IN IF at = 0 THEN AfterStartPattern(t, Tail(patterns))
                    ELSE LET remaining == SubSeq(t, at + Len(Head(patterns)), Len(t))
                             end_idx == Find(remaining, Fence, 1)
                         IN IF end_idx # 0 THEN Strip(SubSeq(remaining, 1, end_idx - 1))
                            ELSE Strip(remaining)
        stripped == Strip(s)
        open == Find(stripped, Fence, 1)
        close == IF open = 0 THEN 0 ELSE Find(stripped, Fence, open + 3)
        after == IF Find(stripped, FenceJson, open) = open THEN open + 7 ELSE open + 3
        json_lines == LinesBeforeFence(Tail(SplitLines(stripped, <<>>)))
    IN IF close # 0
       THEN Strip(SubSeq(stripped, after, Find(stripped, Fence, after) - 1))
       ELSE IF open = 1 /\ json_lines # <<>> THEN Strip(Join(json_lines, <<"\n">>))
       ELSE IF \/ Find(stripped, FenceJson, 1) # 0
               \/ Find(stripped, Fence \o <<"\n", "{">>, 1) # 0
            THEN AfterStartPattern(stripped,
                                   <<FenceJson \o <<"\n">>, FenceJson \o <<"\r", "\n">>,
                                     Fence \o <<"\n">>, Fence \o <<"\r", "\n">> >>)
            ELSE stripped

\* extract_json_object
extract_json_object(s) ==
    LET \* n copies of c
        Copies(c, n) == [k \in 1..n |-> c]
        \* the loop of extract_json_object from the first `{` (at start) on
        RECURSIVE MatchBraces(_, _, _, _, _, _, _)
        MatchBraces(t, start, i, depth, in_string, escape_next, in_array) ==
            IF i > Len(t)
            THEN SubSeq(t, start, Len(t))
                    \o (IF in_string THEN <<"\"">> ELSE <<>>)
                    \o (IF in_array > 0 THEN Copies("]", in_array) ELSE <<>>)
                    \o (IF depth > 0 THEN Copies("}", depth) ELSE <<>>)
            ELSE IF escape_next
                 THEN MatchBraces(t, start, i + 1, depth, in_string, FALSE, in_array)
            ELSE IF t[i] = "\\"
                 THEN MatchBraces(t, start, i + 1, depth, in_string, TRUE, in_array)
            ELSE IF t[i] = "\""
                 THEN MatchBraces(t, start, i + 1, depth, ~in_string, FALSE, in_array)
            ELSE IF in_string
                 THEN MatchBraces(t, start, i + 1, depth, in_string, FALSE, in_array)
            ELSE IF t[i] = "{"
                 THEN MatchBraces(t, start, i + 1, depth + 1, in_string, FALSE, in_array)
            ELSE IF t[i] = "}"
                 THEN IF depth - 1 = 0 THEN SubSeq(t, start, i)
                      ELSE MatchBraces(t, start, i + 1, depth - 1, in_string, FALSE, in_array)
            ELSE IF t[i] = "["
                 THEN MatchBraces(t, start, i + 1, depth, in_string, FALSE, in_array + 1)
            ELSE IF t[i] = "]"
                 THEN MatchBraces(t, start, i + 1, depth, in_string, FALSE, in_array - 1)
            ELSE MatchBraces(t, start, i + 1, depth, in_string, FALSE, in_array)
        start == Find(s, <<"{">>, 1)
    IN IF start = 0 THEN s ELSE MatchBraces(s, start, start, 0, FALSE, FALSE, 0)

\* the first index from i on that holds no \s character
RECURSIVE SkipWhitespace(_, _)
SkipWhitespace(t, i) ==
    IF i <= Len(t) /\ t[i] \in Whitespace THEN SkipWhitespace(t, i + 1) ELSE i

\* fix_trailing_commas: re.sub(r',\s*([}\]])', r'\1', text)
fix_trailing_commas(s) ==
    LET RECURSIVE FixTrailingCommas(_, _)
        FixTrailingCommas(t, i) ==
            IF i > Len(t) THEN <<>>
            ELSE LET j == SkipWhitespace(t, i + 1)
                 IN IF t[i] = "," /\ j <= Len(t) /\ t[j] \in {"}", "]"}
                    THEN <<t[j]>> \o FixTrailingCommas(t, j + 1)
                    ELSE <<t[i]>> \o FixTrailingCommas(t, i + 1)
    IN FixTrailingCommas(s, 1)

\* fix_missing_commas: the substitutions in the order of the code.  The one
\* for true, false and null needs letters no text here holds.
fix_missing_commas(s) ==
    LET \* re.sub(r'X\s*\n[\s\n]*Y', 'X,\nY', text) for a character of X followed,
        \* after whitespace that holds a line feed, by a character of Y
        RECURSIVE InsertComma(_, _, _, _)
        InsertComma(t, i, X, Y) ==
            IF i > Len(t) THEN <<>>
            ELSE LET j == SkipWhitespace(t, i + 1)
                 IN IF /\ t[i] \in X
                       /\ j <= Len(t)
                       /\ t[j] \in Y
                       /\ \E k \in (i + 1)..(j - 1) : t[k] = "\n"
                    THEN <<t[i], ",", "\n", t[j]>> \o InsertComma(t, j + 1, X, Y)
                    ELSE <<t[i]>> \o InsertComma(t, i + 1, X, Y)
        t1 == InsertComma(s, 1, {"\""}, {"\""})
        t2 == InsertComma(t1, 1, {"}"}, {"\""})
        t3 == InsertComma(t2, 1, {"]"}, {"\""})
        t4 == InsertComma(t3, 1, {"1"}, {"\""})
        t5 == InsertComma(t4, 1, {"}"}, {"{"})
        t6 == InsertComma(t5, 1, {"]"}, {"["})
        t7 == InsertComma(t6, 1, {"}"}, {"["})
    IN InsertComma(t7, 1, {"]"}, {"{"})

\* fix_newlines_in_strings
fix_newlines_in_strings(s) ==
    LET \* the loop of fix_newlines_in_strings
        RECURSIVE EscapeNewlines(_, _, _)
        EscapeNewlines(t, in_string, escape_next) ==
            IF t = <<>> THEN <<>>
            ELSE IF escape_next THEN <<Head(t)>> \o EscapeNewlines(Tail(t), in_string, FALSE)
            ELSE IF Head(t) = "\\" THEN <<Head(t)>> \o EscapeNewlines(Tail(t), in_string, TRUE)
            ELSE IF Head(t) = "\"" THEN <<Head(t)>> \o EscapeNewlines(Tail(t), ~in_string, FALSE)
            ELSE IF in_string /\ Head(t) = "\n"
                 THEN <<"\\", "n">> \o EscapeNewlines(Tail(t), in_string, FALSE)
            ELSE IF in_string /\ Head(t) = "\r" THEN EscapeNewlines(Tail(t), in_string, FALSE)
            ELSE IF in_string /\ Head(t) = "\t"
                 THEN <<"\\", "t">> \o EscapeNewlines(Tail(t), in_string, FALSE)
            ELSE <<Head(t)>> \o EscapeNewlines(Tail(t), in_string, FALSE)
    IN EscapeNewlines(s, FALSE, FALSE)

\* repair_json
repair_json(t) ==
    fix_newlines_in_strings(
        fix_missing_commas(fix_trailing_commas(extract_json_object(extract_from_markdown(t)))))

\* safe_parse_json with the repaired text as its only try
RepairOnly(s) ==
    LET r == Loads(repair_json(s))
    IN IF r.kind = "value" THEN [pc |-> "returned", kind |-> "value", value |-> r.value]
       ELSE [pc |-> "returned", kind |-> "None", value |-> <<>>]

\* safe_parse_json
safe_parse_json(s) ==
    LET Returned(r) == [pc |-> "returned", kind |-> r.kind, value |-> r.value]
        ReturnedNone == [pc |-> "returned", kind |-> "None", value |-> <<>>]
        Raised(r) == [pc |-> "raised", kind |-> r.kind, value |-> <<>>]
        \* one `try: return json.loads(...)  except json.JSONDecodeError: ...`
        \* with what the function does when the except clause is taken
        TryLoads(t, otherwise) ==
            LET r == Loads(t)
            IN IF r.kind = "value" THEN Returned(r)
               ELSE IF r.kind = "JSONDecodeError" THEN otherwise
               ELSE Raised(r)
        \* re.sub(r'[\x00-\x08\x0b\x0c\x0e-\x1f]', '', text)
        cleaned == SelectSeq(s, LAMBDA c : c # "\f")
        start == Find(s, <<"{">>, 1)
        fourth == IF start > 1
                  THEN TryLoads(repair_json(SubSeq(s, start, Len(s))), ReturnedNone)
                  ELSE ReturnedNone
        third == TryLoads(repair_json(cleaned), fourth)
        second == TryLoads(repair_json(s), third)
    IN IF s = <<>> \/ Strip(s) = <<>> THEN ReturnedNone
       ELSE TryLoads(s, second)

\* safe_parse_json(text) called on a response text
SafeParseJson ==
    /\ parsed.pc = "idle"
    /\ parsed' = safe_parse_json(text)
    /\ UNCHANGED <<text, chunk_size, chunks, merge, publish, store>>
    /\ UNCHANGED <<schedVars, itemVars, stageVars>>

InitJson ==
    /\ SchedInit
    /\ item = ItemIdle
    /\ run = RunIdle
    /\ article = NoArticle
    /\ site = FALSE
    /\ verdict = UploadedVerdict
    /\ jobs = <<>>
    /\ text \in JsonTexts
    /\ chunk_size = 1
    /\ chunks = NoChunks
    /\ merge = NoMerge
    /\ parsed = NotParsed
    /\ publish = NoPublish
    /\ store = EmptyStore

SpecJson == InitJson /\ [][SafeParseJson]_vars

\* C29: safe_parse_json never raises to its caller: every call ends by
\* returning a parsed value or None.  The code catches json.JSONDecodeError
\* only; the RecursionError of a deeply nested text passes through.
SafeParseNeverRaises == parsed.pc # "raised"

\* C30: on a text that is valid JSON, safe_parse_json returns the value the
\* direct parse of that text gives, untouched by the repairs.
ValidJsonParsedDirectly ==
    (parsed.pc # "idle" /\ Loads(text).kind = "value")
        => parsed = [pc |-> "returned", kind |-> "value", value |-> Loads(text).value]

\* C30 witness: the valid text [{}] came back as the list holding an empty
\* object, although repair_json would extract the inner object from it.
ValidJsonKeptWhole ==
    /\ text = <<"[", "{", "}", "]">>
    /\ Loads(repair_json(text)).value = <<"{", "}">>
    /\ parsed = [pc |-> "returned", kind |-> "value", value |-> <<"[", "{", "}", "]">>]

\* C31: in the pipeline started by reprocess, the item that anonymize_verdict
\* left ANONYMIZED is accepted by analyze_verdict: the call that follows the
\* successful de-identification goes on to analyse and does not raise.
PipelineAnalyzesAnonymized ==
    [][\A i \in 1..Len(jobs) :
          (/\ jobs[i].kind = "pipeline"
           /\ jobs[i].pc = "analyze"
           /\ verdict.status = "anonymized"
           /\ JobAnalyzeEnter(i))
              => jobs'[i].pc = "analyzing"]_vars

(***************************************************************************)
(* services/wordpress_manager.py: publish_article_with_retry (SpecPublish) *)
(*                                                                         *)
(* publish: [pc, status, max_retries, attempt, results, publish_status,    *)
(*   committed, raised, reported].  pc is "idle", "loop" (at the top of    *)
(*   the for loop with attempt the loop variable), "returned" or "raised"; *)
(*   status is the post status asked for, "draft" or "publish"; results    *)
(*   are the outcomes of the calls of wp_service.publish_article so far;   *)
(*   publish_status is the field of the Article object in the session and  *)
(*   committed what the database holds; raised is the exception that left  *)
(*   the function and reported the number of attempts its message names.   *)
(* A call of the collaborator ends in one of                               *)
(*   "ok"            the article comes back, PUBLISHED for status          *)
(*                   "publish" and READY otherwise;                        *)
(*   "client_error"  WordPressClientError, which publish_article raises    *)
(*                   after committing FAILED;                              *)
(*   "fatal_error"   the same with "not found" or "authentication" in its  *)
(*                   message;                                              *)
(*   "other_error"   any other exception (ValueError for a missing site,   *)
(*                   a connection error outside the client's try block).   *)
(* Article has no column named metadata: article.metadata is the MetaData  *)
(* of the declarative Base, which is true as a condition and refuses item  *)
(* assignment with TypeError.                                              *)
(***************************************************************************)
\* the call, the lookup of the article and validate_article_for_publishing
PublishArticleWithRetry(status, retries, valid) ==
    /\ publish.pc = "idle"
    /\ publish' = IF valid
                  THEN [publish EXCEPT !.pc = "loop", !.status = status, !.max_retries = retries]
                  ELSE [publish EXCEPT !.pc = "raised", !.status = status,
                                       !.max_retries = retries, !.raised = "ValueError"]
    /\ UNCHANGED <<text, chunk_size, chunks, merge, parsed, store>>
    /\ UNCHANGED <<schedVars, itemVars, stageVars>>

\* one pass of the for loop: the call of wp_service.publish_article and the
\* handling of what it gives
PublishAttempt(result) ==
    /\ publish.pc = "loop"
    /\ publish.attempt < publish.max_retries
    /\ LET p == [publish EXCEPT !.results = Append(@, result)]
           done == IF publish.status = "publish" THEN "published" ELSE "ready"
       IN publish' =
            CASE result = "ok" ->
                    \* article.metadata['publish_attempts'] = attempt + 1 raises
                    [p EXCEPT !.publish_status = done, !.committed = done,
                              !.pc = "raised", !.raised = "TypeError"]
              [] result = "client_error" ->
                    [p EXCEPT !.publish_status = "failed", !.committed = "failed",
                              !.attempt = @ + 1]
              [] result = "fatal_error" ->
                    [p EXCEPT !.publish_status = "failed", !.committed = "failed",
                              !.pc = "raised", !.raised = "PublishingError"]
              [] OTHER ->
                    [p EXCEPT !.pc = "raised", !.raised = "Exception"]
    /\ UNCHANGED <<text, chunk_size, chunks, merge, parsed, store>>
    /\ UNCHANGED <<schedVars, itemVars, stageVars>>

\* after the loop: publish_status is set on the object, the write of
\* article.metadata['last_publish_error'] raises before the commit and
\* before the raise of PublishingError
PublishExhausted ==
    /\ publish.pc = "loop"
    /\ publish.attempt >= publish.max_retries
    /\ publish' = [publish EXCEPT !.publish_status = "failed", !.pc = "raised",
                                  !.raised = "TypeError"]
    /\ UNCHANGED <<text, chunk_size, chunks, merge, parsed, store>>
    /\ UNCHANGED <<schedVars, itemVars, stageVars>>

InitPublish ==
    /\ SchedInit
    /\ item = ItemIdle
    /\ run = RunIdle
    /\ article = NoArticle
    /\ site = FALSE
    /\ verdict = UploadedVerdict
    /\ jobs = <<>>
    /\ text = <<>>
    /\ chunk_size = 1
    /\ chunks = NoChunks
    /\ merge = NoMerge
    /\ parsed = NotParsed
    /\ \E st \in {"draft", "pending_review", "ready", "published", "failed"} :
          publish = [NoPublish EXCEPT !.publish_status = st, !.committed = st]
    /\ store = EmptyStore

SpecPublish ==
    /\ InitPublish
    /\ [][
              \/ \E status \in {"draft", "publish"}, retries \in 1..MaxPublishRetries,
                    valid \in BOOLEAN :
                    PublishArticleWithRetry(status, retries, valid)
              \/ \E result \in {"ok", "client_error", "fatal_error", "other_error"} :
                    PublishAttempt(result)
              \/ PublishExhausted
         ]_vars

\* C32: publish_article_with_retry calls the collaborator at most
\* max_retries times; once a call has succeeded it returns the article; and
\* when max_retries calls were made and all failed it raises PublishingError
\* naming that number of attempts, with the article's publish_status FAILED.
PublishRetryContract ==
    LET ended == publish.pc \in {"returned", "raised"} /\ publish.raised # "ValueError"
        succeeded == \E k \in 1..Len(publish.results) : publish.results[k] = "ok"
    IN /\ Len(publish.results) <= publish.max_retries
       /\ (ended /\ succeeded) => publish.pc = "returned"
       /\ (ended /\ ~succeeded /\ Len(publish.results) = publish.max_retries)
             => /\ publish.raised = "PublishingError"
                /\ publish.reported = publish.max_retries
                /\ publish.publish_status = "failed"

(***************************************************************************)
(* Uploads (SpecUploads): the verdict table by file hash                   *)
(*                                                                         *)
(* store: [rows, created, last].  rows are the Verdict rows, [id,          *)
(*   file_hash, status], in creation order; created counts the rows ever   *)
(*   made (the next id is created + 1); last is the last upload: the hash  *)
(*   of its content, its overwrite flag, the id of the row found with      *)
(*   that hash (0 if none, or if the lookup was not reached) and how it    *)
(*   ended.  A content is identified with its SHA-256 hash.                *)
(***************************************************************************)
\* get_verdict_by_hash: the index of the first row with the hash, 0 if none
get_verdict_by_hash(rows, file_hash) ==
    LET found == {i \in 1..Len(rows) : rows[i].file_hash = file_hash}
    IN IF found = {} THEN 0 ELSE CHOOSE i \in found : \A j \in found : i <= j

\* delete_verdict
delete_verdict(rows, id) == SelectSeq(rows, LAMBDA r : r.id # id)

\* process_file_upload without the lookup of the hash
UploadUnchecked(st, file_hash, overwrite, extract_ok) ==
    [rows |-> Append(st.rows, [id |-> st.created + 1, file_hash |-> file_hash,
                               status |-> IF extract_ok THEN "extracted" ELSE "failed"]),
     created |-> st.created + 1,
     last |-> [outcome |-> IF extract_ok THEN "created" ELSE "extraction_failed",
               file_hash |-> file_hash, overwrite |-> overwrite,
               existing |-> IF get_verdict_by_hash(st.rows, file_hash) = 0 THEN 0
                            ELSE st.rows[get_verdict_by_hash(st.rows, file_hash)].id]]

\* process_file_upload: the store it leaves.  extract_ok: extract_text
\* succeeds; when it raises, a FAILED row with the hash is left
process_file_upload(st, file_hash, overwrite, extract_ok) ==
    LET at == get_verdict_by_hash(st.rows, file_hash)
        existing == IF at = 0 THEN 0 ELSE st.rows[at].id
        last == [outcome |-> "already_uploaded", file_hash |-> file_hash,
                 overwrite |-> overwrite, existing |-> existing]
        rows == IF at # 0 THEN delete_verdict(st.rows, existing) ELSE st.rows
    IN IF at # 0 /\ ~overwrite THEN [st EXCEPT !.last = last]
       ELSE [rows |-> Append(rows, [id |-> st.created + 1, file_hash |-> file_hash,
                                    status |-> IF extract_ok THEN "extracted"
                                               ELSE "failed"]),
             created |-> st.created + 1,
             last |-> [last EXCEPT !.outcome = IF extract_ok THEN "created"
                                               ELSE "extraction_failed"]]

\* POST /verdicts/upload; valid: the size and the extension pass
UploadVerdictFile(file_hash, overwrite, valid, extract_ok) ==
    /\ store.created < MaxUploads
    /\ store' = IF valid THEN process_file_upload(store, file_hash, overwrite, extract_ok)
                ELSE [store EXCEPT !.last = [outcome |-> "invalid", file_hash |-> file_hash,
                                             overwrite |-> overwrite, existing |-> 0]]
    /\ UNCHANGED <<text, chunk_size, chunks, merge, parsed, publish>>
    /\ UNCHANGED <<schedVars, itemVars, stageVars>>

\* BatchService._process_single_file on the verdict table
BatchSingleFile(file_hash, valid, extract_ok) ==
    /\ store.created < MaxUploads
    /\ LET at == get_verdict_by_hash(store.rows, file_hash)
           last == [outcome |-> "invalid", file_hash |-> file_hash, overwrite |-> FALSE,
                    existing |-> 0]
       IN store' =
            IF ~valid THEN [store EXCEPT !.last = last]
            ELSE IF at # 0
                 THEN [store EXCEPT !.last = [last EXCEPT !.outcome = "duplicate",
                                                          !.existing = store.rows[at].id]]
                 ELSE process_file_upload(store, file_hash, FALSE, extract_ok)
    /\ UNCHANGED <<text, chunk_size, chunks, merge, parsed, publish>>
    /\ UNCHANGED <<schedVars, itemVars, stageVars>>

\* DELETE /verdicts/{id}
DeleteVerdict(id) ==
    /\ \E i \in 1..Len(store.rows) : store.rows[i].id = id
    /\ store' = [store EXCEPT !.rows = delete_verdict(@, id)]
    /\ UNCHANGED <<text, chunk_size, chunks, merge, parsed, publish>>
    /\ UNCHANGED <<schedVars, itemVars, stageVars>>

InitUploads ==
    /\ SchedInit
    /\ item = ItemIdle
    /\ run = RunIdle
    /\ article = NoArticle
    /\ site = FALSE
    /\ verdict = UploadedVerdict
    /\ jobs = <<>>
    /\ PureIdle

SpecUploads ==
    /\ InitUploads
    /\ [][
              \/ \E file_hash \in 1..MaxContents, overwrite \in BOOLEAN, valid \in BOOLEAN,
                    extract_ok \in BOOLEAN :
                    UploadVerdictFile(file_hash, overwrite, valid, extract_ok)
              \/ \E file_hash \in 1..MaxContents, valid \in BOOLEAN, extract_ok \in BOOLEAN :
                    BatchSingleFile(file_hash, valid, extract_ok)
              \/ \E id \in 1..MaxUploads : DeleteVerdict(id)
         ]_vars

\* C33: no two verdicts share a file hash, and an upload of a valid file
\* whose content already belongs to a verdict, made without overwrite, is
\* rejected ("already uploaded", "duplicate" in a batch) and creates no
\* verdict.
NoSharedFileHash ==
    /\ [](\A i, j \in 1..Len(store.rows) :
            i # j => store.rows[i].file_hash # store.rows[j].file_hash)
    /\ [][(/\ store'.last # store.last
           /\ store'.last.outcome # "invalid"
           /\ ~store'.last.overwrite
           /\ get_verdict_by_hash(store.rows, store'.last.file_hash) # 0)
              => /\ store'.last.outcome \in {"already_uploaded", "duplicate"}
                 /\ store'.rows = store.rows
                 /\ store'.created = store.created]_vars

\* C33 witness: with two verdicts stored, the content of the first was
\* uploaded again without overwrite and was rejected.
SecondUploadRejected ==
    /\ Len(store.rows) = 2
    /\ store.last.outcome = "already_uploaded"
    /\ store.last.existing = store.rows[1].id

\* C34: from the second attempt on, the hints handed to the generator name
\* exactly the categories whose score in the previous attempt was below the
\* threshold of the gate (each hint carries the score of its category in
\* previous_scores).
HintsNameFailedCategories ==
    (run.pc = "generate" /\ run.attempt >= 2 /\ run.previous_scores # NoScores)
        => run.hints = FailedMetrics(run.previous_scores)

\* at most one verdict is in flight: the loop awaits each _process_verdict
OnePipelineAtATime == InFlight <= 1

\* C35: the bound max_concurrent is attainable: with a verdict in flight,
\* a free slot and a fetched verdict still waiting, the worker loop is not
\* held by the pipeline in flight but goes on to start the next one, so that
\* max_concurrent eligible verdicts are in flight together.
ConcurrencyBoundAttainable ==
    (is_running /\ InFlight >= 1 /\ sem > 0 /\ pendingQ # <<>>) => wpc # "await"

(***************************************************************************)
(* utils/json_repair.py: the stages of repair_json one by one (SpecRepairs)*)
(*                                                                         *)
(* parsed: [pc, kind, value]; after a stage is applied to text, pc is the  *)
(* stage, kind is "text" and value is the text the stage returns.          *)
(***************************************************************************)
\* the responses cut off by the token limit: every prefix of a JSON object
\* whose values nest up to MaxNesting lists and objects
TruncatedTexts ==
    LET RECURSIVE Values(_)
        Values(n) ==
            IF n = 0 THEN {<<"1">>, <<"\"", "\"">>}
            ELSE Values(n - 1)
                    \cup {<<"[">> \o v \o <<"]">> : v \in Values(n - 1)}
                    \cup {<<"{", "\"", "\"", ":">> \o v \o <<"}">> : v \in Values(n - 1)}
        NestedObjects == {<<"{", "\"", "\"", ":">> \o v \o <<"}">> : v \in Values(MaxNesting)}
    IN UNION {{SubSeq(d, 1, k) : k \in 1..Len(d)} : d \in NestedObjects}

RepairStages == {"markdown", "object", "trailing_commas", "missing_commas", "newlines"}

\* one stage of repair_json applied to the text
RepairStage(stage) ==
    /\ parsed.pc = "idle"
    /\ parsed' = [pc |-> stage, kind |-> "text",
                  value |-> CASE stage = "markdown" -> extract_from_markdown(text)
                              [] stage = "object" -> extract_json_object(text)
                              [] stage = "trailing_commas" -> fix_trailing_commas(text)
                              [] stage = "missing_commas" -> fix_missing_commas(text)
                              [] stage = "newlines" -> fix_newlines_in_strings(text)]
    /\ UNCHANGED <<text, chunk_size, chunks, merge, publish, store>>
    /\ UNCHANGED <<schedVars, itemVars, stageVars>>

InitRepairs ==
    /\ SchedInit
    /\ item = ItemIdle
    /\ run = RunIdle
    /\ article = NoArticle
    /\ site = FALSE
    /\ verdict = UploadedVerdict
    /\ jobs = <<>>
    /\ text \in JsonTexts \cup TruncatedTexts
    /\ chunk_size = 1
    /\ chunks = NoChunks
    /\ merge = NoMerge
    /\ parsed = NotParsed
    /\ publish = NoPublish
    /\ store = EmptyStore

SpecRepairs ==
    InitRepairs /\ [][\E stage \in RepairStages : RepairStage(stage)]_vars

\* C36: on a truncated prefix of a nested object, extract_json_object closes
\* the open string and then the open lists and objects in the reverse of the
\* order they were opened in: the brackets and braces of its result, outside
\* strings, are well nested.
TruncatedPrefixWellNested ==
    LET RECURSIVE Nested(_, _, _)
        \* open: the brackets open so far, the innermost first
        Nested(t, open, in_string) ==
            IF t = <<>> THEN open = <<>> /\ ~in_string
            ELSE IF Head(t) = "\"" THEN Nested(Tail(t), open, ~in_string)
            ELSE IF in_string THEN Nested(Tail(t), open, in_string)
            ELSE IF Head(t) \in {"{", "["} THEN Nested(Tail(t), <<Head(t)>> \o open, FALSE)
            ELSE IF Head(t) = "}"
                 THEN open # <<>> /\ Head(open) = "{" /\ Nested(Tail(t), Tail(open), FALSE)
            ELSE IF Head(t) = "]"
                 THEN open # <<>> /\ Head(open) = "[" /\ Nested(Tail(t), Tail(open), FALSE)
            ELSE Nested(Tail(t), open, FALSE)
    IN (parsed.pc = "object" /\ text \in TruncatedTexts) => Nested(parsed.value, <<>>, FALSE)

\* C37: a stage of repair_json applied to a text that is valid JSON returns
\* a text that parses to the same value.
RepairStagesKeepValidJson ==
    (parsed.pc \in RepairStages /\ Loads(text).kind = "value")
        => /\ Loads(parsed.value).kind = "value"
           /\ Loads(parsed.value).value = Loads(text).value

\* C38: every change of a batch's status is pending to processing (with
\* files in the batch), pending or processing to cancelled, or processing
\* to completed; a completed or cancelled batch keeps its status.
BatchStatusTransitions ==
    [][\A b \in 1..Len(batches) :
          (b <= Len(batches') /\ batches'[b].status # batches[b].status)
              => \/ /\ batches[b].status = "pending"
                    /\ batches'[b].status = "processing"
                    /\ batches[b].total_files > 0
                 \/ /\ batches[b].status \in {"pending", "processing"}
                    /\ batches'[b].status = "cancelled"
                 \/ /\ batches[b].status = "processing"
                    /\ batches'[b].status = "completed"]_vars

\* C38 witness: a processing batch was cancelled after the worker had
\* processed some of its verdicts and before it took up the rest.
CancelledAfterProgress ==
    \E b \in 1..Len(batches) :
        /\ batches[b].status = "cancelled"
        /\ batches[b].processed_files > 0
        /\ batches[b].processed_files < batches[b].total_files

\* C39: processed_files never exceeds total_files: a verdict of a batch is
\* counted once, also when it is reset to EXTRACTED and processed again
\* while the batch is in processing.
ProcessedWithinTotal ==
    \A b \in 1..Len(batches) : batches[b].processed_files <= batches[b].total_files


\* C40: when the de-identification of a chunk failed and the chunk was kept
\* as it was, the merged result requires review and the verdict is stored
\* with requires_manual_review set.
FailedChunkIsFlagged ==
    (\E k \in 1..Len(merge.results) : merge.results[k] = "error")
        => /\ merge.needs_review
           /\ merge.pc = "stored" => merge.requires_manual_review

\* C40 witness: a verdict was stored whose second chunk failed while the
\* other chunks were returned with low risk and no review asked for.
OneFailedChunkStored ==
    /\ merge.pc = "stored"
    /\ merge.results = <<"low", "error", "low">>
    /\ merge.requires_manual_review

====
